---- MODULE Spec2Model ----
(***************************************************************************)
(* A model of seasnake/generator.py: the CodeWriter formatting layer, the  *)
(* scope model (Declaration / Context and its subclasses), the node        *)
(* dispatcher Generator.handle with its handle_<kind> builders, and the    *)
(* emitters (the output methods).                                          *)
(*                                                                         *)
(* Python values are records with a "type" field.  Objects that are        *)
(* mutated after creation live in a heap (a sequence of records) and are   *)
(* referred to by handles [type |-> "Obj", id |-> i].  A Python exception  *)
(* is the name of its class in the "err" field of a result record; the     *)
(* state reached up to the raise is kept, as in Python.                    *)
(***************************************************************************)
EXTENDS Integers, Sequences, FiniteSets, TLC

VARIABLES
    out,            \* CodeWriter.out: the chunks passed to out.write, in order
    line_cleared,   \* CodeWriter.line_cleared
    block_cleared,  \* CodeWriter.block_cleared
    calls,          \* history: the CodeWriter calls made so far
    mark,           \* history: Len(out) right after the last write call (-1: none)
    tu,             \* history: the translation unit handed to Generator.parse
    heap,           \* the model objects (Module, Class, Constructor, ...)
    filenames,      \* Generator.filenames
    log,            \* the notices printed to sys.stderr by Generator.handle
    pc,             \* "init", "parsed", "failed", "handled", "emitted", "emit_failed"
    error,          \* the exception that escaped parse / handle / output ("" if none)
    probe           \* history: the last direct call of Generator.handle

vars == <<out, line_cleared, block_cleared, calls, mark,
          tu, heap, filenames, log, pc, error, probe>>

writerVars == <<out, line_cleared, block_cleared, calls, mark>>
generatorVars == <<tu, heap, filenames, log, pc, error, probe>>

-----------------------------------------------------------------------------
(* Bounds of the model.                                                    *)

MaxCalls == 4       \* CodeWriter calls per behaviour
MaxBlank == 3       \* largest blank_lines argument tried
MaxTop == 2         \* top-level declarations per translation unit

-----------------------------------------------------------------------------
(* Python's None, truthiness, and small helpers.                           *)

None == [type |-> "None"]

NoErr == ""

Max(a, b) == IF a >= b THEN a ELSE b

RECURSIVE Repeat(_, _)
Repeat(s, n) == IF n <= 0 THEN "" ELSE s \o Repeat(s, n - 1)

\* '    ' * depth
Indent(depth) == Repeat("    ", depth)

RECURSIVE Join(_)
\* ''.join(chunks): the text a stream holds after the writes
Join(chunks) == IF chunks = <<>> THEN "" ELSE Head(chunks) \o Join(Tail(chunks))

-----------------------------------------------------------------------------
(* CodeWriter (generator.py 595-615).  A writer is the record              *)
(* [out, line_cleared, block_cleared].                                     *)

CodeWriter(stream) ==
    [out |-> stream, line_cleared |-> TRUE, block_cleared |-> 2]

\* a faulty write, for comparison: the blank-line counter is not reset
write_keep_block(w, content) ==
    [out |-> Append(w.out, content), line_cleared |-> FALSE,
     block_cleared |-> w.block_cleared]

write(w, content) ==
    [out |-> Append(w.out, content), line_cleared |-> FALSE, block_cleared |-> 0]

clear_line(w) ==
    IF ~w.line_cleared
    THEN [w EXCEPT !.out = Append(@, "\n"), !.line_cleared = TRUE]
    ELSE w

RECURSIVE clear_block_loop(_, _)
\* while self.block_cleared < blank_lines: out.write('\n'); block_cleared += 1
clear_block_loop(w, blank_lines) ==
    IF w.block_cleared < blank_lines
    THEN clear_block_loop([w EXCEPT !.out = Append(@, "\n"),
                                    !.block_cleared = @ + 1], blank_lines)
    ELSE w

RECURSIVE additive_loop(_, _)
additive_loop(w, n) ==
    IF n > 0 THEN additive_loop([w EXCEPT !.out = Append(@, "\n")], n - 1) ELSE w

\* a faulty clear_block, for comparison: purely additive, every call emits
\* blank_lines blank lines
clear_block_additive(w, blank_lines) ==
    LET w1 == additive_loop(clear_line(w), blank_lines)
    IN  [w1 EXCEPT !.block_cleared = Max(@, blank_lines)]

clear_block(w, blank_lines) ==
    clear_block_loop(clear_line(w), blank_lines)

-----------------------------------------------------------------------------
(* OrderedDict: a sequence of [k, v] entries; assigning to an existing key *)
(* keeps the key's position.                                               *)

ODHas(d, k) == \E i \in 1..Len(d) : d[i].k = k

ODGet(d, k) == d[CHOOSE i \in 1..Len(d) : d[i].k = k].v

ODSet(d, k, v) ==
    IF ODHas(d, k)
    THEN [i \in 1..Len(d) |-> IF d[i].k = k THEN [k |-> k, v |-> v] ELSE d[i]]
    ELSE Append(d, [k |-> k, v |-> v])

ODValues(d) == [i \in 1..Len(d) |-> d[i].v]

-----------------------------------------------------------------------------
(* Syntax nodes (clang.cindex.Cursor), as the generator reads them.        *)

MainFile == "a.cpp"         \* the file handed to parse
OtherFile == "sys.h"        \* a header that is not registered
Cwd == "/cwd/"

AbsolutePaths == {Cwd \o MainFile, Cwd \o OtherFile}

\* os.path.abspath
abspath(path) == IF path \in AbsolutePaths THEN path ELSE Cwd \o path

\* str.split() / str.split(' ') on the spellings the model uses
split(spelling) ==
    CASE spelling = "class Foo" -> <<"class", "Foo">>
      [] spelling = "class Bar" -> <<"class", "Bar">>
      [] spelling = "struct S" -> <<"struct", "S">>
      [] spelling = "enum Color" -> <<"enum", "Color">>
      [] OTHER -> <<spelling>>

\* int(token): the tokens Python's int accepts
IntTokens == {"0", "1", "2", "42", "007"}
int(token) ==
    CASE token = "0" -> 0 [] token = "1" -> 1 [] token = "2" -> 2
      [] token = "42" -> 42 [] token = "007" -> 7

\* str(float(token)): the tokens Python's float accepts
FloatTokens == {"1.5", "2.", "1e3"}
float(token) ==
    CASE token = "1.5" -> "1.5" [] token = "2." -> "2.0" [] token = "1e3" -> "1000.0"

Node(kind, spelling, children) ==
    [kind |-> kind, spelling |-> spelling, children |-> children,
     has_file |-> TRUE, file |-> MainFile,
     type_kind |-> "INT", result_kind |-> "INVALID",
     tokens |-> <<>>, enum_value |-> 0, pure_virtual |-> FALSE]

-----------------------------------------------------------------------------
(* Results of a call: the build state reached, the value returned and the  *)
(* exception raised (NoErr if none).  A build state is                     *)
(* [heap, log, filenames].                                                 *)

Ok(st, ret) == [st |-> st, ret |-> ret, err |-> NoErr]
Raise(st, e) == [st |-> st, ret |-> None, err |-> e]

Obj(id) == [type |-> "Obj", id |-> id]
IsObj(v) == v.type = "Obj"
TypeOf(st, v) == IF IsObj(v) THEN st.heap[v.id].type ELSE v.type

\* bool(v) for the values handlers return
Truthy(v) == v # None

ContextTypes == {"Module", "Enumeration", "Function", "Struct", "Class",
                 "Constructor", "Destructor", "Method"}

\* Declaration.__init__ / Context.__init__: create the object and register
\* it in the parent's names when it has a name and a parent
Declaration(st, parent, name, obj) ==
    LET register == name # "" /\ Truthy(parent)
        id == Len(st.heap) + 1
        st1 == [st EXCEPT !.heap = Append(@, obj)]
    IN  IF register /\ TypeOf(st, parent) \notin ContextTypes
        THEN Raise(st, "AttributeError")
        ELSE IF register
        THEN Ok([st1 EXCEPT !.heap[parent.id].names = ODSet(@, name, Obj(id))], Obj(id))
        ELSE Ok(st1, Obj(id))

\* a faulty __getitem__, for comparison: the enclosing contexts are not
\* consulted
getitem_local(st, context, name) ==
    IF TypeOf(st, context) \notin ContextTypes
    THEN Raise(st, "TypeError")
    ELSE LET self == st.heap[context.id]
         IN  IF ODHas(self.names, name)
             THEN Ok(st, ODGet(self.names, name))
             ELSE Raise(st, "KeyError")

RECURSIVE getitem(_, _, _)
\* Context.__getitem__
getitem(st, context, name) ==
    IF TypeOf(st, context) \notin ContextTypes
    THEN Raise(st, "TypeError")
    ELSE LET self == st.heap[context.id]
         IN  IF ODHas(self.names, name)
             THEN Ok(st, ODGet(self.names, name))
             ELSE IF Truthy(self.parent)
             THEN getitem(st, self.parent, name)
             ELSE Raise(st, "KeyError")

Module(st, name, parent) ==
    Declaration(st, parent, "",
        [type |-> "Module", parent |-> parent, name |-> name, names |-> <<>>,
         declarations |-> <<>>, imports |-> {}, submodules |-> <<>>])

Enumeration(st, parent, name) ==
    Declaration(st, parent, name,
        [type |-> "Enumeration", parent |-> parent, name |-> name, names |-> <<>>,
         enumerators |-> <<>>])

EnumValue(key, value) == [type |-> "EnumValue", key |-> key, value |-> value]

Function(st, parent, name) ==
    Declaration(st, parent, name,
        [type |-> "Function", parent |-> parent, name |-> name, names |-> <<>>,
         parameters |-> <<>>, statements |-> <<>>])

Parameter(st, function, name) ==
    Declaration(st, function, name,
        [type |-> "Parameter", parent |-> function, name |-> name,
         ctype |-> None, default |-> None])

Variable(st, parent, name, value) ==
    Declaration(st, parent, name,
        [type |-> "Variable", parent |-> parent, name |-> name, value |-> value])

Struct(st, parent, name) ==
    Declaration(st, parent, name,
        [type |-> "Struct", parent |-> parent, name |-> name, names |-> <<>>,
         attributes |-> <<>>])

Class(st, parent, name) ==
    Declaration(st, parent, name,
        [type |-> "Class", parent |-> parent, name |-> name, names |-> <<>>,
         superclass |-> "", constructor |-> None, destructor |-> None,
         attributes |-> <<>>, methods |-> <<>>, classes |-> <<>>])

\* statements: has_body FALSE is Python's None, TRUE a list
Constructor(st, klass) ==
    Declaration(st, klass, "",
        [type |-> "Constructor", parent |-> klass, name |-> "", names |-> <<>>,
         parameters |-> <<>>, has_body |-> FALSE, statements |-> <<>>])

Destructor(st, klass) ==
    Declaration(st, klass, "",
        [type |-> "Destructor", parent |-> klass, name |-> "", names |-> <<>>,
         parameters |-> <<>>, has_body |-> FALSE, statements |-> <<>>])

Method(st, klass, name, pure_virtual) ==
    Declaration(st, klass, name,
        [type |-> "Method", parent |-> klass, name |-> name, names |-> <<>>,
         parameters |-> <<>>, has_body |-> FALSE, statements |-> <<>>,
         pure_virtual |-> pure_virtual])

Attribute(st, klass, name, value) ==
    Declaration(st, klass, name,
        [type |-> "Attribute", parent |-> klass, name |-> name, value |-> value])

Return(value) == [type |-> "Return", value |-> value]
Reference(ref) == [type |-> "Reference", ref |-> ref]
SelfReference == [type |-> "SelfReference"]
AttributeReference(instance, attr) ==
    [type |-> "AttributeReference", instance |-> instance, attr |-> attr]
Literal(text) == [type |-> "Literal", value |-> text]
UnaryOperation(op, value) == [type |-> "UnaryOperation", op |-> op, value |-> value]
BinaryOperation(lvalue, op, rvalue) ==
    [type |-> "BinaryOperation", lvalue |-> lvalue, op |-> op, rvalue |-> rvalue]
ConditionalOperation(true_value, condition, false_result) ==
    [type |-> "ConditionalOperation", true_value |-> true_value,
     condition |-> condition, false_result |-> false_result]
FunctionCall(fn, arguments) ==
    [type |-> "FunctionCall", fn |-> fn, arguments |-> arguments]

\* an expression object while its handler is still filling it in: it is
\* what the handler passes down as the context of its operands
UnderConstruction(type) == [type |-> type]

-----------------------------------------------------------------------------
(* The attach operations: add_to_context and the add_* methods it calls.   *)

\* the methods a class lacks raise AttributeError when called
HasAddImports(t) == t \notin {"None", "Parameter", "EnumValue"}

\* Module.add_import; no other class has it
add_import(st, module, statement) ==
    IF TypeOf(st, module) = "Module"
    THEN Ok([st EXCEPT !.heap[module.id].imports = @ \cup {statement}], None)
    ELSE Raise(st, "AttributeError")

\* <decl>.add_imports(module)
add_imports(st, decl, module) ==
    LET t == TypeOf(st, decl)
    IN  IF ~HasAddImports(t) THEN Raise(st, "AttributeError")
        ELSE IF t = "Enumeration" THEN add_import(st, module, "from enum import Enum")
        ELSE Ok(st, None)

\* <context>.add_declaration(decl): Module.add_declaration, Class.add_declaration
add_declaration(st, context, decl) ==
    LET t == TypeOf(st, context)
    IN  IF t = "Module"
        THEN add_imports(
                 [st EXCEPT !.heap[context.id].declarations =
                                ODSet(@, st.heap[decl.id].name, decl)],
                 decl, context)
        ELSE Raise(st, "AttributeError")   \* Class: OrderedDict has no append

\* <context>.add_parameter(parameter)
add_parameter(st, context, parameter) ==
    IF TypeOf(st, context) \in {"Function", "Constructor", "Method"}
    THEN Ok([st EXCEPT !.heap[context.id].parameters = Append(@, parameter)], None)
    ELSE Raise(st, "AttributeError")

\* <context>.add_attribute(attr): Struct, Class, and Constructor which
\* forwards to its class
add_attribute(st, context, attr) ==
    LET t == TypeOf(st, context)
        name == st.heap[attr.id].name
    IN  IF t \in {"Struct", "Class"}
        THEN Ok([st EXCEPT !.heap[context.id].attributes = ODSet(@, name, attr)], None)
        ELSE IF t = "Constructor"
        THEN LET klass == st.heap[context.id].parent
             IN  Ok([st EXCEPT !.heap[klass.id].attributes = ODSet(@, name, attr)], None)
        ELSE Raise(st, "AttributeError")

\* Class.add_constructor
add_constructor(st, klass, method) ==
    LET self == st.heap[klass.id]
    IN  IF Truthy(self.constructor) /\ st.heap[self.constructor.id].has_body
        THEN Raise(st, "Exception")
        ELSE Ok([st EXCEPT !.heap[klass.id].constructor = method], None)

\* Class.add_destructor
add_destructor(st, klass, method) ==
    LET self == st.heap[klass.id]
    IN  IF Truthy(self.destructor) /\ st.heap[self.destructor.id].has_body
        THEN Raise(st, "Exception")
        ELSE Ok([st EXCEPT !.heap[klass.id].destructor = method], None)

\* Class.add_method
add_method(st, klass, method) ==
    Ok([st EXCEPT !.heap[klass.id].methods =
                      ODSet(@, st.heap[method.id].name, method)], None)

\* <decl>.add_to_context(context)
add_to_context(st, decl, context) ==
    LET t == TypeOf(st, decl)
    IN  CASE t \in {"Enumeration", "Function", "Variable", "Struct", "Class"} ->
                 add_declaration(st, context, decl)
          [] t = "Parameter" -> add_parameter(st, context, decl)
          [] t = "Attribute" -> add_attribute(st, context, decl)
          [] t = "Constructor" -> add_constructor(st, st.heap[decl.id].parent, decl)
          [] t = "Destructor" -> add_destructor(st, st.heap[decl.id].parent, decl)
          [] t = "Method" -> add_method(st, st.heap[decl.id].parent, decl)
          [] OTHER -> Raise(st, "AttributeError")

\* a faulty add_statement, for comparison: a member's statement replaces
\* the list instead of extending it
add_statement_overwrite(st, context, statement) ==
    LET t == TypeOf(st, context)
    IN  IF t \in {"Constructor", "Destructor", "Method"}
        THEN add_imports(
                 [st EXCEPT !.heap[context.id].statements = <<statement>>,
                            !.heap[context.id].has_body = TRUE],
                 statement, context)
        ELSE IF t = "Function"
        THEN add_imports(
                 [st EXCEPT !.heap[context.id].statements = Append(@, statement)],
                 statement, context)
        ELSE Raise(st, "AttributeError")

\* <context>.add_statement(statement): Function, Constructor, Destructor, Method
add_statement(st, context, statement) ==
    LET t == TypeOf(st, context)
    IN  IF t \in {"Constructor", "Destructor", "Method"}
        THEN add_imports(
                 [st EXCEPT !.heap[context.id].statements =
                                IF Len(@) > 0 THEN Append(@, statement)
                                              ELSE <<statement>>,
                            !.heap[context.id].has_body = TRUE],
                 statement, context)
        ELSE IF t = "Function"
        THEN add_imports(
                 [st EXCEPT !.heap[context.id].statements = Append(@, statement)],
                 statement, context)
        ELSE Raise(st, "AttributeError")

-----------------------------------------------------------------------------
(* Generator.handle and the handle_<kind> builders.  Each takes the node,  *)
(* the context and the build state, and yields a result record.            *)

HandledKinds == {
    "UNEXPOSED_DECL", "STRUCT_DECL", "CLASS_DECL", "ENUM_DECL", "FIELD_DECL",
    "ENUM_CONSTANT_DECL", "FUNCTION_DECL", "VAR_DECL", "PARM_DECL",
    "TYPEDEF_DECL", "CXX_METHOD", "NAMESPACE", "CONSTRUCTOR", "DESTRUCTOR",
    "CXX_ACCESS_SPEC_DECL", "TYPE_REF", "CXX_BASE_SPECIFIER", "MEMBER_REF",
    "UNEXPOSED_EXPR", "DECL_REF_EXPR", "MEMBER_REF_EXPR", "CALL_EXPR",
    "INTEGER_LITERAL", "FLOATING_LITERAL", "STRING_LITERAL",
    "CHARACTER_LITERAL", "PAREN_EXPR", "UNARY_OPERATOR", "BINARY_OPERATOR",
    "CONDITIONAL_OPERATOR", "CXX_FUNCTIONAL_CAST_EXPR", "CXX_THIS_EXPR",
    "CXX_NEW_EXPR", "COMPOUND_STMT", "RETURN_STMT", "DECL_STMT",
    "TRANSLATION_UNIT"}

Notice(st, msg, what) ==
    [st EXCEPT !.log = Append(@, [msg |-> msg, what |-> what])]

RECURSIVE handle(_, _, _)

RECURSIVE attach_children(_, _, _, _)
\* for child in <children from i on>:
\*     decl = self.handle(child, context); if decl: decl.add_to_context(context)
attach_children(children, i, context, st) ==
    IF i > Len(children) THEN Ok(st, None)
    ELSE LET r == handle(children[i], context, st)
         IN  IF r.err # NoErr THEN r
             ELSE IF Truthy(r.ret)
             THEN LET a == add_to_context(r.st, r.ret, context)
                  IN  IF a.err # NoErr THEN a
                      ELSE attach_children(children, i + 1, context, a.st)
             ELSE attach_children(children, i + 1, context, r.st)

handle_unexposed_decl(node, context, st) == Ok(st, None)

handle_struct_decl(node, context, st) ==
    LET struct == Struct(st, context, node.spelling)
    IN  IF struct.err # NoErr THEN struct
        ELSE LET r == attach_children(node.children, 1, struct.ret, struct.st)
             IN  IF r.err # NoErr THEN r ELSE Ok(r.st, struct.ret)

handle_class_decl(node, context, st) ==
    LET klass == Class(st, context, node.spelling)
    IN  IF klass.err # NoErr THEN klass
        ELSE LET r == attach_children(node.children, 1, klass.ret, klass.st)
             IN  IF r.err # NoErr THEN r ELSE Ok(r.st, klass.ret)

RECURSIVE add_enumerators(_, _, _, _)
\* for child in node.get_children(): enum.add_enumerator(self.handle(child, enum))
add_enumerators(children, i, enum, st) ==
    IF i > Len(children) THEN Ok(st, None)
    ELSE LET r == handle(children[i], enum, st)
         IN  IF r.err # NoErr THEN r
             ELSE add_enumerators(children, i + 1, enum,
                      [r.st EXCEPT !.heap[enum.id].enumerators = Append(@, r.ret)])

handle_enum_decl(node, context, st) ==
    LET enum == Enumeration(st, context, node.spelling)
    IN  IF enum.err # NoErr THEN enum
        ELSE LET r == add_enumerators(node.children, 1, enum.ret, enum.st)
             IN  IF r.err # NoErr THEN r ELSE Ok(r.st, enum.ret)

handle_field_decl(node, context, st) ==
    IF Len(node.children) = 0
    THEN Ok(st, None)                        \* except StopIteration: return None
    ELSE LET value == handle(node.children[1], context, st)
         IN  IF value.err = "StopIteration" THEN Ok(value.st, None)
             ELSE IF value.err # NoErr THEN value
             ELSE Attribute(value.st, context, node.spelling, value.ret)

handle_enum_constant_decl(node, enum, st) ==
    Ok(st, EnumValue(node.spelling, node.enum_value))

handle_function_decl(node, context, st) ==
    LET function == Function(st, context, node.spelling)
        skip == IF node.result_kind \in {"RECORD", "LVALUEREFERENCE", "POINTER"}
                THEN 1 ELSE 0
    IN  IF function.err # NoErr THEN function
        ELSE IF Len(node.children) < skip
        THEN Raise(function.st, "StopIteration")
        ELSE LET r == attach_children(node.children, skip + 1,
                                      function.ret, function.st)
             IN  IF r.err # NoErr THEN r ELSE Ok(r.st, function.ret)

handle_var_decl(node, context, st) ==
    LET skip == IF node.type_kind = "RECORD" THEN 1 ELSE 0
    IN  IF Len(node.children) <= skip
        THEN Ok(st, None)                    \* StopIteration; except: return None
        ELSE LET value == handle(node.children[skip + 1], context, st)
             IN  IF value.err # NoErr THEN Ok(value.st, None)
                 ELSE LET var == Variable(value.st, context, node.spelling, value.ret)
                      IN  IF var.err # NoErr THEN Ok(var.st, None) ELSE var

handle_parm_decl(node, function, st) == Parameter(st, function, node.spelling)

handle_typedef_decl(node, context, st) == Ok(st, None)

\* context[decl.ref].methods[node.spelling] / .constructor / .destructor
find_prototype(which, node, context, decl, st) ==
    IF decl.type # "Reference" THEN Raise(st, "AttributeError")
    ELSE LET found == getitem(st, context, decl.ref)
         IN  IF found.err # NoErr THEN found
             ELSE IF TypeOf(st, found.ret) # "Class" THEN Raise(st, "AttributeError")
             ELSE LET klass == st.heap[found.ret.id]
                  IN  CASE which = "method" ->
                               IF ODHas(klass.methods, node.spelling)
                               THEN Ok(st, ODGet(klass.methods, node.spelling))
                               ELSE Raise(st, "KeyError")
                        [] which = "constructor" -> Ok(st, klass.constructor)
                        [] which = "destructor" -> Ok(st, klass.destructor)

RECURSIVE member_children(_, _, _, _, _, _, _, _)
\* the child loop shared by handle_cxx_method, handle_constructor and
\* handle_destructor; member is the method/constructor/destructor variable
member_children(which, node, context, children, i, member, is_prototype, st) ==
    IF i > Len(children)
    THEN Ok(st, IF is_prototype THEN member ELSE None)
    ELSE LET child == children[i]
             decl == handle(child, member, st)
         IN  IF decl.err # NoErr THEN decl
             ELSE IF member = None
             THEN LET found == find_prototype(which, node, context, decl.ret, decl.st)
                  IN  IF found.err # NoErr THEN found
                      ELSE member_children(which, node, context, children, i + 1,
                                           found.ret, is_prototype, found.st)
             ELSE IF Truthy(decl.ret) /\ (is_prototype \/ child.kind # "PARM_DECL")
             THEN LET a == add_to_context(decl.st, decl.ret, member)
                  IN  IF a.err # NoErr THEN a
                      ELSE member_children(which, node, context, children, i + 1,
                                           member, is_prototype, a.st)
             ELSE member_children(which, node, context, children, i + 1,
                                  member, is_prototype, decl.st)

\* a faulty handle_cxx_method, for comparison: the definition is treated
\* like a prototype once its method is found, so its parameters are
\* attached again
handle_cxx_method_reparam(node, context, st) ==
    LET is_prototype == TypeOf(st, context) = "Class"
        method == IF is_prototype
                  THEN Method(st, context, node.spelling, node.pure_virtual)
                  ELSE Ok(st, None)
        skip == IF node.result_kind = "RECORD" THEN 1 ELSE 0
    IN  IF Len(node.children) < skip
        THEN Raise(method.st, "StopIteration")
        ELSE member_children("method", node, context, node.children, skip + 1,
                             method.ret, TRUE, method.st)

handle_cxx_method(node, context, st) ==
    LET is_prototype == TypeOf(st, context) = "Class"
        method == IF is_prototype
                  THEN Method(st, context, node.spelling, node.pure_virtual)
                  ELSE Ok(st, None)
        skip == IF node.result_kind = "RECORD" THEN 1 ELSE 0
    IN  IF Len(node.children) < skip
        THEN Raise(method.st, "StopIteration")
        ELSE member_children("method", node, context, node.children, skip + 1,
                             method.ret, is_prototype, method.st)

handle_namespace(node, module, st) ==
    attach_children(node.children, 1, module, st)

handle_constructor(node, context, st) ==
    LET is_prototype == TypeOf(st, context) = "Class"
        constructor == IF is_prototype THEN Constructor(st, context) ELSE Ok(st, None)
    IN  member_children("constructor", node, context, node.children, 1,
                        constructor.ret, is_prototype, constructor.st)

handle_destructor(node, context, st) ==
    LET is_prototype == TypeOf(st, context) = "Class"
        destructor == IF is_prototype THEN Destructor(st, context) ELSE Ok(st, None)
    IN  member_children("destructor", node, context, node.children, 1,
                        destructor.ret, is_prototype, destructor.st)

handle_cxx_access_spec_decl(node, context, st) == Ok(st, None)

handle_type_ref(node, context, st) ==
    IF Len(split(node.spelling)) < 2 THEN Raise(st, "IndexError")
    ELSE Ok(st, Reference(split(node.spelling)[2]))

handle_cxx_base_specifier(node, context, st) ==
    IF Len(split(node.spelling)) < 2 THEN Raise(st, "IndexError")
    ELSE IF context = None THEN Raise(st, "AttributeError")
    ELSE IF TypeOf(st, context) = "Class"
    THEN Ok([st EXCEPT !.heap[context.id].superclass = split(node.spelling)[2]], None)
    ELSE Ok(st, None)    \* sets an attribute nothing reads

\* handle_member_ref: the multiple-children check reads `children`, a name
\* the function never binds, so it raises NameError once the child is built
handle_member_ref(node, context, st) ==
    IF Len(node.children) = 0
    THEN Ok(st, AttributeReference(SelfReference, node.spelling))
    ELSE LET instance == handle(node.children[1], context, st)
         IN  IF instance.err = "StopIteration"
             THEN Ok(instance.st, AttributeReference(SelfReference, node.spelling))
             ELSE IF instance.err # NoErr THEN instance
             ELSE Raise(instance.st, "NameError")

handle_unexposed_expr(node, statement, st) ==
    IF Len(node.children) = 0 THEN Raise(st, "StopIteration")
    ELSE IF Len(node.children) > 1 THEN Raise(st, "Exception")
    ELSE handle(node.children[1], statement, st)

handle_decl_ref_expr(node, statement, st) == Ok(st, Reference(node.spelling))

handle_member_ref_expr(node, context, st) ==
    IF Len(node.children) = 0
    THEN Ok(st, AttributeReference(SelfReference, node.spelling))
    ELSE LET instance == handle(node.children[1], context, st)
         IN  IF instance.err = "StopIteration"
             THEN Ok(instance.st, AttributeReference(SelfReference, node.spelling))
             ELSE IF instance.err # NoErr THEN instance
             ELSE IF Len(node.children) > 1 THEN Raise(instance.st, "Exception")
             ELSE Ok(instance.st, AttributeReference(instance.ret, node.spelling))

RECURSIVE add_arguments(_, _, _, _, _)
\* for child in children: fn.add_argument(self.handle(child, context))
add_arguments(children, i, context, arguments, st) ==
    IF i > Len(children) THEN Ok(st, arguments)
    ELSE LET r == handle(children[i], context, st)
         IN  IF r.err # NoErr THEN r
             ELSE add_arguments(children, i + 1, context, Append(arguments, r.ret), r.st)

handle_call_expr(node, context, st) ==
    IF Len(node.children) = 0 THEN Raise(st, "StopIteration")
    ELSE LET fn == handle(node.children[1], context, st)
         IN  IF fn.err # NoErr \/ node.type_kind = "RECORD" THEN fn
             ELSE LET args == add_arguments(node.children, 2, context, <<>>, fn.st)
                  IN  IF args.err # NoErr THEN args
                      ELSE Ok(args.st, FunctionCall(fn.ret, args.ret))

handle_integer_literal(node, context, st) ==
    IF Len(node.tokens) = 0 THEN Raise(st, "StopIteration")
    ELSE IF node.tokens[1] \notin IntTokens THEN Raise(st, "ValueError")
    ELSE Ok(st, Literal(ToString(int(node.tokens[1]))))

handle_floating_literal(node, context, st) ==
    IF Len(node.tokens) = 0 THEN Raise(st, "StopIteration")
    ELSE IF node.tokens[1] \notin FloatTokens THEN Raise(st, "ValueError")
    ELSE Ok(st, Literal(float(node.tokens[1])))

handle_string_literal(node, context, st) ==
    IF Len(node.tokens) = 0 THEN Raise(st, "StopIteration")
    ELSE Ok(st, Literal(node.tokens[1]))

handle_character_literal(node, context, st) ==
    IF Len(node.tokens) = 0 THEN Raise(st, "StopIteration")
    ELSE Ok(st, Literal(node.tokens[1]))

\* handle_paren_expr: `Parentheses` is a name the module never defines; the
\* call expression evaluates it before its argument, so NameError is raised
\* before any child is read
handle_paren_expr(node, context, st) == Raise(st, "NameError")

\* except StopIteration: raise Exception(...)
Requires2(r) == IF r.err = "StopIteration" THEN Raise(r.st, "Exception") ELSE r

\* a faulty handle_unary_operator, for comparison: children after the
\* second are ignored
handle_unary_operator_lenient(node, context, st) ==
    LET unaryop == UnderConstruction("UnaryOperation")
        children == node.children
    IN  IF Len(children) < 1 THEN Raise(st, "Exception")
        ELSE LET op == handle(children[1], unaryop, st)
             IN  IF op.err # NoErr THEN Requires2(op)
                 ELSE IF Len(children) < 2 THEN Raise(op.st, "Exception")
                 ELSE LET value == handle(children[2], unaryop, op.st)
                      IN  IF value.err # NoErr THEN Requires2(value)
                          ELSE Ok(value.st, UnaryOperation(op.ret, value.ret))

handle_unary_operator(node, context, st) ==
    LET unaryop == UnderConstruction("UnaryOperation")
        children == node.children
    IN  IF Len(children) < 1 THEN Raise(st, "Exception")
        ELSE LET op == handle(children[1], unaryop, st)
             IN  IF op.err # NoErr THEN Requires2(op)
                 ELSE IF Len(children) < 2 THEN Raise(op.st, "Exception")
                 ELSE LET value == handle(children[2], unaryop, op.st)
                      IN  IF value.err # NoErr THEN Requires2(value)
                          ELSE IF Len(children) > 2 THEN Raise(value.st, "Exception")
                          ELSE Ok(value.st, UnaryOperation(op.ret, value.ret))

\* a faulty handle_binary_operator, for comparison: the operands are
\* stored swapped
handle_binary_operator_swapped(node, context, st) ==
    LET binop == UnderConstruction("BinaryOperation")
        children == node.children
    IN  IF Len(children) < 1 THEN Raise(st, "Exception")
        ELSE LET lvalue == handle(children[1], binop, st)
             IN  IF lvalue.err # NoErr THEN Requires2(lvalue)
                 ELSE IF Len(children[1].tokens) = 0 THEN Raise(lvalue.st, "IndexError")
                 ELSE IF Len(children) < 2 THEN Raise(lvalue.st, "Exception")
                 ELSE LET rvalue == handle(children[2], binop, lvalue.st)
                          op == children[1].tokens[Len(children[1].tokens)]
                      IN  IF rvalue.err # NoErr THEN Requires2(rvalue)
                          ELSE IF Len(children) > 2 THEN Raise(rvalue.st, "Exception")
                          ELSE Ok(rvalue.st,
                                  BinaryOperation(rvalue.ret, op, lvalue.ret))

handle_binary_operator(node, context, st) ==
    LET binop == UnderConstruction("BinaryOperation")
        children == node.children
    IN  IF Len(children) < 1 THEN Raise(st, "Exception")
        ELSE LET lvalue == handle(children[1], binop, st)
             IN  IF lvalue.err # NoErr THEN Requires2(lvalue)
                 \* list(lnode.get_tokens())[-1]
                 ELSE IF Len(children[1].tokens) = 0 THEN Raise(lvalue.st, "IndexError")
                 ELSE IF Len(children) < 2 THEN Raise(lvalue.st, "Exception")
                 ELSE LET rvalue == handle(children[2], binop, lvalue.st)
                          op == children[1].tokens[Len(children[1].tokens)]
                      IN  IF rvalue.err # NoErr THEN Requires2(rvalue)
                          ELSE IF Len(children) > 2 THEN Raise(rvalue.st, "Exception")
                          ELSE Ok(rvalue.st,
                                  BinaryOperation(lvalue.ret, op, rvalue.ret))

handle_conditional_operator(node, context, st) ==
    LET condop == UnderConstruction("ConditionalOperation")
        children == node.children
    IN  IF Len(children) < 1 THEN Raise(st, "StopIteration")
        ELSE LET c1 == handle(children[1], condop, st)
             IN  IF c1.err # NoErr THEN c1
                 ELSE IF Len(children) < 2 THEN Raise(c1.st, "StopIteration")
                 ELSE LET c2 == handle(children[2], condop, c1.st)
                      IN  IF c2.err # NoErr THEN c2
                          ELSE IF Len(children) < 3 THEN Raise(c2.st, "StopIteration")
                          ELSE LET c3 == handle(children[3], condop, c2.st)
                               IN  IF c3.err # NoErr THEN c3
                                   ELSE Ok(c3.st, ConditionalOperation(
                                               c1.ret, c2.ret, c3.ret))

\* handle_cxx_functional_cast_expr: `except Exception` prints and goes on,
\* leaving `value` unbound (UnboundLocalError, a NameError) at the return
handle_cxx_functional_cast_expr(node, context, st) ==
    LET children == node.children
    IN  IF Len(children) < 1 THEN Raise(st, "Exception")
        ELSE LET to_type == handle(children[1], context, st)
             IN  IF to_type.err = "StopIteration" THEN Raise(to_type.st, "Exception")
                 ELSE IF to_type.err # NoErr
                 THEN Raise(to_type.st,
                            IF Len(children) > 1 THEN "Exception" ELSE "NameError")
                 ELSE IF Len(children) < 2 THEN Raise(to_type.st, "Exception")
                 ELSE LET value == handle(children[2], context, to_type.st)
                      IN  IF value.err = "StopIteration"
                          THEN Raise(value.st, "Exception")
                          ELSE IF Len(children) > 2 THEN Raise(value.st, "Exception")
                          ELSE IF value.err # NoErr THEN Raise(value.st, "NameError")
                          ELSE value

handle_cxx_this_expr(node, context, st) == Ok(st, SelfReference)

\* handle_cxx_new_expr: the second try block raises unconditionally, so the
\* handler never returns a value
handle_cxx_new_expr(node, context, st) ==
    LET children == node.children
    IN  IF Len(children) < 1 THEN Raise(st, "Exception")
        ELSE LET klass == handle(children[1], context, st)
             IN  IF klass.err # NoErr THEN Requires2(klass)
                 ELSE IF Len(children) < 2 THEN Raise(klass.st, "Exception")
                 ELSE LET call == handle(children[2], context, klass.st)
                      IN  IF call.err # NoErr THEN Requires2(call)
                          \* New.__init__ reads function_call.arguments
                          ELSE IF call.ret.type # "FunctionCall"
                          THEN Raise(call.st, "AttributeError")
                          ELSE Raise(call.st, "Exception")

RECURSIVE compound_children(_, _, _, _)
\* for child in node.get_children():
\*     statement = self.handle(child, context)
\*     if statement: context.add_statement(statement)
compound_children(children, i, context, st) ==
    IF i > Len(children) THEN Ok(st, None)
    ELSE LET statement == handle(children[i], context, st)
         IN  IF statement.err # NoErr THEN statement
             ELSE IF Truthy(statement.ret)
             THEN LET a == add_statement(statement.st, context, statement.ret)
                  IN  IF a.err # NoErr THEN a
                      ELSE compound_children(children, i + 1, context, a.st)
             ELSE compound_children(children, i + 1, context, statement.st)

handle_compound_stmt(node, context, st) ==
    compound_children(node.children, 1, context, st)

handle_return_stmt(node, context, st) ==
    IF Len(node.children) = 0 THEN Ok(st, Return(None))
    ELSE LET value == handle(node.children[1], context, st)
         IN  IF value.err # NoErr
             THEN Ok(value.st, Return(None))       \* except: pass
             ELSE Ok(value.st, Return(value.ret))

handle_decl_stmt(node, context, st) ==
    IF Len(node.children) = 0 THEN Ok(st, None)
    ELSE LET r == handle(node.children[1], context, st)
         IN  IF r.err = "StopIteration" THEN Ok(r.st, None)
             ELSE IF r.err # NoErr THEN Raise(r.st, "Exception")
             ELSE r

handle_translation_unit(node, unit, st) ==
    attach_children(node.children, 1, unit, st)

\* handler(node, context) for the handler getattr found
dispatch(node, context, st) ==
    CASE node.kind = "UNEXPOSED_DECL" -> handle_unexposed_decl(node, context, st)
      [] node.kind = "STRUCT_DECL" -> handle_struct_decl(node, context, st)
      [] node.kind = "CLASS_DECL" -> handle_class_decl(node, context, st)
      [] node.kind = "ENUM_DECL" -> handle_enum_decl(node, context, st)
      [] node.kind = "FIELD_DECL" -> handle_field_decl(node, context, st)
      [] node.kind = "ENUM_CONSTANT_DECL" -> handle_enum_constant_decl(node, context, st)
      [] node.kind = "FUNCTION_DECL" -> handle_function_decl(node, context, st)
      [] node.kind = "VAR_DECL" -> handle_var_decl(node, context, st)
      [] node.kind = "PARM_DECL" -> handle_parm_decl(node, context, st)
      [] node.kind = "TYPEDEF_DECL" -> handle_typedef_decl(node, context, st)
      [] node.kind = "CXX_METHOD" -> handle_cxx_method(node, context, st)
      [] node.kind = "NAMESPACE" -> handle_namespace(node, context, st)
      [] node.kind = "CONSTRUCTOR" -> handle_constructor(node, context, st)
      [] node.kind = "DESTRUCTOR" -> handle_destructor(node, context, st)
      [] node.kind = "CXX_ACCESS_SPEC_DECL" -> handle_cxx_access_spec_decl(node, context, st)
      [] node.kind = "TYPE_REF" -> handle_type_ref(node, context, st)
      [] node.kind = "CXX_BASE_SPECIFIER" -> handle_cxx_base_specifier(node, context, st)
      [] node.kind = "MEMBER_REF" -> handle_member_ref(node, context, st)
      [] node.kind = "UNEXPOSED_EXPR" -> handle_unexposed_expr(node, context, st)
      [] node.kind = "DECL_REF_EXPR" -> handle_decl_ref_expr(node, context, st)
      [] node.kind = "MEMBER_REF_EXPR" -> handle_member_ref_expr(node, context, st)
      [] node.kind = "CALL_EXPR" -> handle_call_expr(node, context, st)
      [] node.kind = "INTEGER_LITERAL" -> handle_integer_literal(node, context, st)
      [] node.kind = "FLOATING_LITERAL" -> handle_floating_literal(node, context, st)
      [] node.kind = "STRING_LITERAL" -> handle_string_literal(node, context, st)
      [] node.kind = "CHARACTER_LITERAL" -> handle_character_literal(node, context, st)
      [] node.kind = "PAREN_EXPR" -> handle_paren_expr(node, context, st)
      [] node.kind = "UNARY_OPERATOR" -> handle_unary_operator(node, context, st)
      [] node.kind = "BINARY_OPERATOR" -> handle_binary_operator(node, context, st)
      [] node.kind = "CONDITIONAL_OPERATOR" -> handle_conditional_operator(node, context, st)
      [] node.kind = "CXX_FUNCTIONAL_CAST_EXPR" ->
             handle_cxx_functional_cast_expr(node, context, st)
      [] node.kind = "CXX_THIS_EXPR" -> handle_cxx_this_expr(node, context, st)
      [] node.kind = "CXX_NEW_EXPR" -> handle_cxx_new_expr(node, context, st)
      [] node.kind = "COMPOUND_STMT" -> handle_compound_stmt(node, context, st)
      [] node.kind = "RETURN_STMT" -> handle_return_stmt(node, context, st)
      [] node.kind = "DECL_STMT" -> handle_decl_stmt(node, context, st)
      [] node.kind = "TRANSLATION_UNIT" -> handle_translation_unit(node, context, st)

\* a faulty handle, for comparison: a kind without a handler is an error
handle_unsupported_fatal(node, context, st) ==
    LET by_spelling == abspath(node.spelling) \in st.filenames
    IN  IF ~by_spelling /\ ~node.has_file
        THEN Raise(st, "AttributeError")
        ELSE IF by_spelling
                \/ (node.file # "" /\ abspath(node.file) \in st.filenames)
        THEN IF node.kind \in HandledKinds
             THEN dispatch(node, context, st)
             ELSE Raise(st, "AttributeError")
        ELSE Ok(Notice(st, "Ignoring node in file", node.file), None)

\* a faulty handle, for comparison: the file filter is skipped
handle_unfiltered(node, context, st) ==
    IF node.kind \in HandledKinds
    THEN dispatch(node, context, st)
    ELSE Ok(Notice(st, "Ignoring node of type", node.kind), None)

\* Generator.handle
handle(node, context, st) ==
    LET by_spelling == abspath(node.spelling) \in st.filenames
    IN  IF ~by_spelling /\ ~node.has_file
        THEN Raise(st, "AttributeError")     \* node.location.file is None
        ELSE IF by_spelling
                \/ (node.file # "" /\ abspath(node.file) \in st.filenames)
        THEN IF node.kind \in HandledKinds
             THEN dispatch(node, context, st)
             ELSE Ok(Notice(st, "Ignoring node of type", node.kind), None)
        ELSE Ok(Notice(st, "Ignoring node in file", node.file), None)

-----------------------------------------------------------------------------
(* The emitters: the output methods.  Each takes the final build state,    *)
(* the object and a writer, and yields [w, err]: the writer reached and    *)
(* the exception raised.  What was written before a raise stays written.   *)

WOk(w) == [w |-> w, err |-> NoErr]
WRaise(w, e) == [w |-> w, err |-> e]

\* r, then F on the writer r reached, unless r raised
Then(r, F(_)) == IF r.err # NoErr THEN r ELSE F(r.w)

\* sorted(self.imports), over the import statements the generator can add
KnownImports == <<"from enum import Enum", "import os", "import sys">>
sorted(imports) == SelectSeq(KnownImports, LAMBDA x : x \in imports)

RECURSIVE JoinNames(_, _, _)
\* ', '.join(<names from i on>)
JoinNames(names, i, sep) ==
    IF i > Len(names) THEN ""
    ELSE IF i = Len(names) THEN names[i]
    ELSE names[i] \o sep \o JoinNames(names, i + 1, sep)

RECURSIVE output(_, _, _, _)

RECURSIVE output_statements(_, _, _, _, _)
\* for statement in statements:
\*     out.write('    ' * (depth + 1)); statement.output(out); out.clear_line()
output_statements(st, statements, i, w, depth) ==
    IF i > Len(statements) THEN WOk(w)
    ELSE Then(output(st, statements[i], write(w, Indent(depth + 1)), 0),
              LAMBDA w1 : output_statements(st, statements, i + 1, clear_line(w1), depth))

RECURSIVE output_each(_, _, _, _, _)
\* for x in xs: x.output(out, depth)
output_each(st, xs, i, w, depth) ==
    IF i > Len(xs) THEN WOk(w)
    ELSE Then(output(st, xs[i], w, depth),
              LAMBDA w1 : output_each(st, xs, i + 1, w1, depth))

RECURSIVE output_imports(_, _, _)
output_imports(statements, i, w) ==
    IF i > Len(statements) THEN w
    ELSE output_imports(statements, i + 1, clear_line(write(w, statements[i])))

\* a faulty Module.output, for comparison: the imports come after the
\* declarations
Module_output_imports_last(st, self, w) ==
    Then(output_each(st, ODValues(self.declarations), 1, w, 0),
         LAMBDA w1 :
         LET w2 == IF self.imports # {}
                   THEN clear_block(output_imports(sorted(self.imports), 1, w1), 2)
                   ELSE w1
         IN  output_each(st, ODValues(self.submodules), 1, w2, 0))

Module_output(st, self, w) ==
    LET w1 == IF self.imports # {}
              THEN clear_block(output_imports(sorted(self.imports), 1, w), 2)
              ELSE w
    IN  Then(output_each(st, ODValues(self.declarations), 1, w1, 0),
             LAMBDA w2 : output_each(st, ODValues(self.submodules), 1, w2, 0))

RECURSIVE output_enumerators_reversed(_, _, _, _)
\* a faulty output loop, for comparison: the enumerators are emitted last first
output_enumerators_reversed(enumerators, i, w, depth) ==
    IF i > Len(enumerators) THEN WOk(w)
    ELSE LET e == enumerators[Len(enumerators) + 1 - i]
         IN  IF e.type # "EnumValue" THEN WRaise(w, "AttributeError")
             ELSE output_enumerators_reversed(enumerators, i + 1,
                      clear_line(write(w, Indent(depth + 1) \o e.key \o " = "
                                            \o ToString(e.value))),
                      depth)

RECURSIVE output_enumerators(_, _, _, _)
output_enumerators(enumerators, i, w, depth) ==
    IF i > Len(enumerators) THEN WOk(w)
    ELSE IF enumerators[i].type # "EnumValue" THEN WRaise(w, "AttributeError")
    ELSE output_enumerators(enumerators, i + 1,
             clear_line(write(w, Indent(depth + 1) \o enumerators[i].key \o " = "
                                   \o ToString(enumerators[i].value))),
             depth)

Enumeration_output(st, self, w, depth) ==
    LET w1 == write(w, Indent(depth) \o "class " \o self.name \o "(Enum):\n")
        r == IF Len(self.enumerators) > 0
             THEN output_enumerators(self.enumerators, 1, w1, depth)
             ELSE WOk(clear_line(write(w1, "    pass")))
    IN  Then(r, LAMBDA w2 : WOk(clear_block(w2, 2)))

ParameterNames(st, parameters) ==
    [i \in 1..Len(parameters) |-> st.heap[parameters[i].id].name]

Function_output(st, self, w, depth) ==
    LET parameters == JoinNames(ParameterNames(st, self.parameters), 1, ", ")
        w1 == write(w, Indent(depth) \o "def " \o self.name
                         \o "(" \o parameters \o "):\n")
        r == IF Len(self.statements) > 0
             THEN output_statements(st, self.statements, 1, w1, depth)
             ELSE WOk(write(w1, "    pass"))
    IN  Then(r, LAMBDA w2 : WOk(clear_block(w2, 2)))

Variable_output(st, self, w, depth) ==
    LET w1 == write(w, self.name \o " = ")
        r == IF Truthy(self.value) THEN output(st, self.value, w1, 0)
             ELSE WOk(write(w1, "None"))
    IN  Then(r, LAMBDA w2 : WOk(clear_line(w2)))

RECURSIVE output_struct_attributes(_, _, _, _, _)
output_struct_attributes(st, attributes, i, w, depth) ==
    IF i > Len(attributes) THEN WOk(w)
    ELSE Then(output(st, attributes[i].v,
                     write(w, Indent(depth + 2) \o attributes[i].k \o " = "), 0),
              LAMBDA w1 : output_struct_attributes(st, attributes, i + 1, w1, depth))

Struct_output(st, self, w, depth) ==
    LET w1 == write(w, Indent(depth) \o "class " \o self.name \o ":\n")
        r == IF Len(self.attributes) > 0
             THEN output_struct_attributes(st, self.attributes, 1,
                      write(w1, Indent(depth + 1) \o "def __init__(self):"), depth)
             ELSE WOk(write(w1, Indent(depth + 1) \o "pass"))
    IN  Then(r, LAMBDA w2 : WOk(clear_block(w2, 2)))

Class_output(st, self, w, depth) ==
    LET w1 == IF self.superclass # ""
              THEN write(w, Indent(depth) \o "class " \o self.name
                               \o "(" \o self.superclass \o "):\n")
              ELSE write(w, Indent(depth) \o "class " \o self.name \o ":\n")
        r == IF Truthy(self.constructor) \/ Truthy(self.destructor)
                \/ Len(self.methods) > 0
             THEN Then(IF Truthy(self.constructor)
                       THEN output(st, self.constructor, w1, depth + 1) ELSE WOk(w1),
                  LAMBDA w2 :
                  Then(IF Truthy(self.destructor)
                       THEN output(st, self.destructor, w2, depth + 1) ELSE WOk(w2),
                  LAMBDA w3 :
                  output_each(st, ODValues(self.methods), 1, w3, depth + 1)))
             ELSE WOk(write(w1, Indent(depth + 1) \o "pass"))
    IN  Then(r, LAMBDA w4 : WOk(clear_block(w4, 2)))

\* p.name if p.name else 'arg%s' % (i + 1)
ConstructorParameterNames(st, parameters) ==
    [i \in 1..Len(parameters) |->
        IF st.heap[parameters[i].id].name # ""
        THEN st.heap[parameters[i].id].name
        ELSE "arg" \o ToString(i)]

Constructor_output(st, self, w, depth) ==
    LET attributes == st.heap[self.parent.id].attributes
        w1 == IF Len(self.parameters) > 0
              THEN write(w, Indent(depth) \o "def __init__(self, "
                       \o JoinNames(ConstructorParameterNames(st, self.parameters), 1, ", ")
                       \o "):\n")
              ELSE write(w, Indent(depth) \o "def __init__(self):\n")
        r == IF Len(attributes) > 0 \/ Len(self.statements) > 0
             THEN Then(output_statements(st, ODValues(attributes), 1, w1, depth),
                  LAMBDA w2 :
                  IF ~self.has_body
                  THEN WRaise(w2, "TypeError")    \* for statement in None
                  ELSE output_statements(st, self.statements, 1, w2, depth))
             ELSE WOk(write(w1, Indent(depth + 1) \o "pass"))
    IN  Then(r, LAMBDA w3 : WOk(clear_block(w3, 1)))

Destructor_output(st, self, w, depth) ==
    LET w1 == write(w, Indent(depth) \o "def __del__(self):\n")
        r == IF Len(self.statements) > 0
             THEN output_statements(st, self.statements, 1, w1, depth)
             ELSE WOk(write(w1, Indent(depth + 1) \o "pass"))
    IN  Then(r, LAMBDA w2 : WOk(clear_block(w2, 1)))

Method_output(st, self, w, depth) ==
    LET w1 == IF Len(self.parameters) > 0
              THEN write(w, Indent(depth) \o "def " \o self.name \o "(self, "
                       \o JoinNames(ParameterNames(st, self.parameters), 1, ", ")
                       \o "):\n")
              ELSE write(w, Indent(depth) \o "def " \o self.name \o "(self):\n")
        r == IF Len(self.statements) > 0
             THEN output_statements(st, self.statements, 1, w1, depth)
             ELSE IF self.pure_virtual
             THEN WOk(write(w1, Indent(depth + 1) \o "raise NotImplementedError()"))
             ELSE WOk(write(w1, Indent(depth + 1) \o "pass"))
    IN  Then(r, LAMBDA w2 : WOk(clear_block(w2, 1)))

Attribute_output(st, self, w) ==
    LET w1 == write(w, "self." \o self.name \o " = ")
        r == IF Truthy(self.value) THEN output(st, self.value, w1, 0)
             ELSE WOk(write(w1, "None"))
    IN  Then(r, LAMBDA w2 : WOk(clear_line(w2)))

Return_output(st, self, w) ==
    LET w1 == write(w, "return")
    IN  IF Truthy(self.value)
        THEN Then(output(st, self.value, write(w1, " "), 0),
                  LAMBDA w2 : WOk(clear_line(w2)))
        ELSE WOk(w1)

Reference_output(st, self, w) == WOk(write(w, self.ref))

SelfReference_output(st, self, w) == WOk(write(w, "self"))

AttributeReference_output(st, self, w) ==
    Then(output(st, self.instance, w, 0),
         LAMBDA w1 : WOk(write(w1, "." \o self.attr)))

Literal_output(st, self, w) == WOk(write(w, self.value))

\* UnaryOperation.output reads self.lvalue, which the builder never sets
UnaryOperation_output(st, self, w) == WRaise(w, "AttributeError")

BinaryOperation_output(st, self, w) ==
    Then(output(st, self.lvalue, w, 0),
         LAMBDA w1 : output(st, self.rvalue, write(w1, " " \o self.op \o " "), 0))

\* ConditionalOperation.output reads self.true_result after writing '(';
\* the builder sets true_value instead
ConditionalOperation_output(st, self, w) ==
    WRaise(write(w, "("), "AttributeError")

RECURSIVE output_arguments(_, _, _, _)
\* for arg in self.arguments[1:]: out.write(', '); arg.output(out)
output_arguments(st, arguments, i, w) ==
    IF i > Len(arguments) THEN WOk(w)
    ELSE Then(output(st, arguments[i], write(w, ", "), 0),
              LAMBDA w1 : output_arguments(st, arguments, i + 1, w1))

FunctionCall_output(st, self, w) ==
    Then(output(st, self.fn, w, 0),
         LAMBDA w1 :
         Then(IF Len(self.arguments) > 0
              THEN Then(output(st, self.arguments[1], write(w1, "("), 0),
                        LAMBDA w2 : output_arguments(st, self.arguments, 2, w2))
              ELSE WOk(write(w1, "(")),
              LAMBDA w3 : WOk(write(w3, ")"))))

\* <v>.output(out, depth): the output method of v's class; None, Parameter
\* and EnumValue have none
output(st, v, w, depth) ==
    LET t == TypeOf(st, v)
        self == IF IsObj(v) THEN st.heap[v.id] ELSE v
    IN  CASE t = "Module" -> Module_output(st, self, w)
          [] t = "Enumeration" -> Enumeration_output(st, self, w, depth)
          [] t = "Function" -> Function_output(st, self, w, depth)
          [] t = "Variable" -> Variable_output(st, self, w, depth)
          [] t = "Struct" -> Struct_output(st, self, w, depth)
          [] t = "Class" -> Class_output(st, self, w, depth)
          [] t = "Constructor" -> Constructor_output(st, self, w, depth)
          [] t = "Destructor" -> Destructor_output(st, self, w, depth)
          [] t = "Method" -> Method_output(st, self, w, depth)
          [] t = "Attribute" -> Attribute_output(st, self, w)
          [] t = "Return" -> Return_output(st, self, w)
          [] t = "Reference" -> Reference_output(st, self, w)
          [] t = "SelfReference" -> SelfReference_output(st, self, w)
          [] t = "AttributeReference" -> AttributeReference_output(st, self, w)
          [] t = "Literal" -> Literal_output(st, self, w)
          [] t = "UnaryOperation" -> UnaryOperation_output(st, self, w)
          [] t = "BinaryOperation" -> BinaryOperation_output(st, self, w)
          [] t = "ConditionalOperation" -> ConditionalOperation_output(st, self, w)
          [] t = "FunctionCall" -> FunctionCall_output(st, self, w)
          [] OTHER -> WRaise(w, "AttributeError")

-----------------------------------------------------------------------------
(* The CodeWriter as a state machine: one action per method.               *)

Texts == {"x", "", "y\n"}

Writer == [out |-> out, line_cleared |-> line_cleared, block_cleared |-> block_cleared]

SetWriter(w) ==
    /\ out' = w.out
    /\ line_cleared' = w.line_cleared
    /\ block_cleared' = w.block_cleared

Write ==
    \E content \in Texts :
        /\ Len(calls) < MaxCalls
        /\ SetWriter(write(Writer, content))
        /\ calls' = Append(calls, [op |-> "write", n |-> 0])
        /\ mark' = Len(out) + 1
        /\ UNCHANGED generatorVars

ClearLine ==
    /\ Len(calls) < MaxCalls
    /\ SetWriter(clear_line(Writer))
    /\ calls' = Append(calls, [op |-> "clear_line", n |-> 0])
    /\ UNCHANGED <<mark, generatorVars>>

ClearBlock ==
    \E blank_lines \in 0..MaxBlank :
        /\ Len(calls) < MaxCalls
        /\ SetWriter(clear_block(Writer, blank_lines))
        /\ calls' = Append(calls, [op |-> "clear_block", n |-> blank_lines])
        /\ UNCHANGED <<mark, generatorVars>>

-----------------------------------------------------------------------------

(* The Generator as a state machine.  parse handles one translation unit  *)
(* (an exception that escapes it ends the run); output renders the module  *)
(* through a fresh CodeWriter on an empty stream.                          *)

ModuleName == "example"

\* Generator.__init__: self.module = Module(name); self.filenames = set()
NewGenerator == Module([heap |-> <<>>, log |-> <<>>, filenames |-> {}], ModuleName, None)

Init ==
    /\ out = <<>>
    /\ line_cleared = TRUE
    /\ block_cleared = 2
    /\ calls = <<>>
    /\ mark = -1
    /\ tu = None
    /\ heap = NewGenerator.st.heap
    /\ filenames = {}
    /\ log = <<>>
    /\ pc = "init"
    /\ error = NoErr
    /\ probe = None

\* self.module
module == Obj(1)

BuildState == [heap |-> heap, log |-> log, filenames |-> filenames]

\* Generator.parse(filename), the frontend yielding the tree `unit`
parse(unit, st) ==
    handle(unit, module, [st EXCEPT !.filenames = @ \cup {abspath(MainFile)}])

Parse(units) ==
    \E unit \in units :
        /\ pc = "init"
        /\ LET r == parse(unit, BuildState)
           IN  /\ heap' = r.st.heap
               /\ log' = r.st.log
               /\ filenames' = r.st.filenames
               /\ error' = r.err
               /\ pc' = IF r.err = NoErr THEN "parsed" ELSE "failed"
        /\ tu' = unit
        /\ UNCHANGED <<writerVars, probe>>

\* a direct call self.handle(node, context) on the model built so far;
\* probe keeps the call, the state before it and what it gave
Handle(nodes) ==
    \E node \in nodes, context \in {None} \cup {Obj(i) : i \in 1..Len(heap)} :
        /\ pc = "parsed"
        /\ LET r == handle(node, context, BuildState)
           IN  /\ heap' = r.st.heap
               /\ log' = r.st.log
               /\ error' = r.err
               /\ probe' = [type |-> "Call", node |-> node, context |-> context,
                            before |-> BuildState, ret |-> r.ret, err |-> r.err]
        /\ pc' = "handled"
        /\ UNCHANGED <<writerVars, tu, filenames>>

\* Generator.output(out)
\* what a caller that builds a module by hand declares: a variable with a
\* literal value, or an enumeration
DeclChoices == {
    [type |-> "Variable", name |-> "y", value |-> "1"],
    [type |-> "Variable", name |-> "y", value |-> "2"],
    [type |-> "Variable", name |-> "z", value |-> "1"],
    [type |-> "Enumeration", name |-> "y"],
    [type |-> "Enumeration", name |-> "E"]
}

\* decl = Variable(module, name, Literal(value)) / Enumeration(module, name)
Declare(st, d) ==
    IF d.type = "Variable" THEN Variable(st, module, d.name, Literal(d.value))
    ELSE Enumeration(st, module, d.name)

\* a direct call self.module.add_declaration(decl) with a new declaration
AddDeclaration ==
    \E d \in DeclChoices :
        /\ pc \in {"init", "parsed"}
        /\ Len(calls) < MaxCalls
        /\ LET decl == Declare(BuildState, d)
               r == add_declaration(decl.st, module, decl.ret)
           IN  /\ heap' = r.st.heap
               /\ error' = r.err
               /\ pc' = IF r.err = NoErr THEN "parsed" ELSE "failed"
        /\ calls' = Append(calls, [op |-> "add_declaration", decl |-> d])
        /\ UNCHANGED <<out, line_cleared, block_cleared, mark, tu, filenames, log, probe>>

\* a direct call self.module.add_import(statement)
AddImport ==
    \E statement \in {"import os", "import sys"} :
        /\ pc \in {"init", "parsed"}
        /\ Len(calls) < MaxCalls
        /\ LET r == add_import(BuildState, module, statement)
           IN  /\ heap' = r.st.heap
               /\ error' = r.err
               /\ pc' = IF r.err = NoErr THEN "parsed" ELSE "failed"
        /\ calls' = Append(calls, [op |-> "add_import", statement |-> statement])
        /\ UNCHANGED <<out, line_cleared, block_cleared, mark, tu, filenames, log, probe>>

MaxDecls == 3       \* declarations created by direct construction

ScopeNames == {"a", "b"}
ScopeTypes == {"Variable", "Function", "Module"}

Contexts == {Obj(i) : i \in {j \in 1..Len(heap) : heap[j].type \in ContextTypes}}

\* Variable(parent, name) / Function(parent, name) / Module(name, parent):
\* the construction of a declaration inside a context of the model
DeclareIn ==
    \E parent \in Contexts, name \in ScopeNames, type \in ScopeTypes :
        /\ pc \in {"init", "parsed"}
        /\ Len(calls) < MaxDecls
        /\ LET r == CASE type = "Variable" -> Variable(BuildState, parent, name, None)
                      [] type = "Function" -> Function(BuildState, parent, name)
                      [] type = "Module" -> Module(BuildState, name, parent)
           IN  /\ heap' = r.st.heap
               /\ error' = r.err
               /\ pc' = IF r.err = NoErr THEN "parsed" ELSE "failed"
        /\ calls' = Append(calls, [op |-> "declare", type |-> type,
                                   parent |-> parent, name |-> name])
        /\ UNCHANGED <<out, line_cleared, block_cleared, mark, tu, filenames, log, probe>>

Output ==
    /\ pc = "parsed"
    /\ LET r == output(BuildState, module, CodeWriter(<<>>), 0)
       IN  /\ SetWriter(r.w)
           /\ error' = r.err
           /\ pc' = IF r.err = NoErr THEN "emitted" ELSE "emit_failed"
    /\ UNCHANGED <<calls, mark, tu, heap, filenames, log, probe>>

-----------------------------------------------------------------------------
(* Input trees.                                                            *)

InFile(node, file) == [node EXCEPT !.file = file]
WithTokens(node, tokens) == [node EXCEPT !.tokens = tokens]

TranslationUnit(children) == Node("TRANSLATION_UNIT", MainFile, children)

\* all sequences over S of length at most n
RECURSIVE SeqsUpTo(_, _)
SeqsUpTo(S, n) ==
    IF n = 0 THEN {<<>>}
    ELSE LET shorter == SeqsUpTo(S, n - 1)
         IN  shorter \cup {Append(q, x) : q \in shorter, x \in S}

DeclRef(name) == Node("DECL_REF_EXPR", name, <<>>)
IntLit(token) == WithTokens(Node("INTEGER_LITERAL", "", <<>>), <<token>>)
ReturnStmt(children) == Node("RETURN_STMT", "", children)
Compound(children) == Node("COMPOUND_STMT", "", children)
TypeRef(spelling) == Node("TYPE_REF", spelling, <<>>)
Parm(name) == Node("PARM_DECL", name, <<>>)
VarDecl(name, children) == Node("VAR_DECL", name, children)
FieldDecl(name, children) == Node("FIELD_DECL", name, children)
FunctionDecl(name, children) == Node("FUNCTION_DECL", name, children)
ClassDecl(name, children) == Node("CLASS_DECL", name, children)

\* the declarations a translation unit of the general family is made of
TopNodes == {
    VarDecl("x", <<>>),
    VarDecl("y", <<IntLit("42")>>),
    VarDecl("p", <<Node("PAREN_EXPR", "", <<DeclRef("a")>>)>>),
    VarDecl("t", <<Node("CONDITIONAL_OPERATOR", "",
                        <<DeclRef("a"), DeclRef("c"), DeclRef("b")>>)>>),
    VarDecl("u", <<Node("UNARY_OPERATOR", "", <<DeclRef("a"), DeclRef("b")>>)>>),
    VarDecl("v", <<Node("CALL_EXPR", "", <<Node("LAMBDA_EXPR", "", <<>>)>>)>>),
    VarDecl("n", <<Node("CXX_NEW_EXPR", "", <<>>)>>),
    FunctionDecl("f", <<Compound(<<DeclRef("undefined_name")>>)>>),
    FunctionDecl("g", <<Compound(<<ReturnStmt(<<Node("PAREN_EXPR", "",
                                                     <<DeclRef("a")>>)>>)>>)>>),
    FunctionDecl("h", <<Parm("a"), Compound(<<ReturnStmt(<<DeclRef("a")>>)>>)>>),
    FunctionDecl("k", <<Compound(<<ReturnStmt(<<Node("BINARY_OPERATOR", "",
                                                     <<>>)>>)>>)>>),
    ClassDecl("Foo", <<FieldDecl("f", <<IntLit("1")>>),
                       Node("CONSTRUCTOR", "Foo", <<>>)>>),
    ClassDecl("Bar", <<FieldDecl("g", <<>>),
                       Node("CXX_METHOD", "m", <<Parm("a")>>)>>),
    Node("STRUCT_DECL", "S", <<FieldDecl("a", <<IntLit("1")>>)>>),
    Node("ENUM_DECL", "Color", <<Node("ENUM_CONSTANT_DECL", "A", <<>>)>>),
    Node("NAMESPACE", "N", <<VarDecl("z", <<IntLit("2")>>)>>),
    Node("CLASS_TEMPLATE", "T", <<VarDecl("w", <<IntLit("1")>>)>>),
    InFile(VarDecl("errno", <<IntLit("0")>>), OtherFile),
    [Node("TYPEDEF_DECL", "__builtin_va_list", <<>>) EXCEPT !.has_file = FALSE]
}

Units == {TranslationUnit(children) : children \in SeqsUpTo(TopNodes, MaxTop)}

-----------------------------------------------------------------------------
(* The member family: a class Foo in one of several shapes, followed by    *)
(* out-of-line definitions of its constructor, method m or destructor.     *)

Statements == {ReturnStmt(<<>>), ReturnStmt(<<DeclRef("x")>>)}

MaxStmts == 2       \* statements per out-of-line body

Bodies == SeqsUpTo(Statements, MaxStmts)

CtorProto(parms) == Node("CONSTRUCTOR", "Foo", parms)
MethodProto(parms) == Node("CXX_METHOD", "m", parms)
DtorProto == Node("DESTRUCTOR", "~Foo", <<>>)

FooClasses == {
    ClassDecl("Foo", <<CtorProto(<<>>)>>),
    ClassDecl("Foo", <<CtorProto(<<Parm("x")>>)>>),
    ClassDecl("Foo", <<CtorProto(<<Compound(<<ReturnStmt(<<>>)>>)>>)>>),
    ClassDecl("Foo", <<MethodProto(<<Parm("a")>>), DtorProto>>),
    ClassDecl("Foo", <<CtorProto(<<Parm("x")>>), MethodProto(<<Parm("a")>>), DtorProto>>),
    ClassDecl("Foo", <<Node("CXX_METHOD", "m", <<Compound(<<ReturnStmt(<<>>)>>)>>),
                       Node("DESTRUCTOR", "~Foo", <<Compound(<<ReturnStmt(<<>>)>>)>>)>>),
    ClassDecl("Foo", <<FieldDecl("f", <<IntLit("1")>>), CtorProto(<<>>)>>),
    ClassDecl("Foo", <<CtorProto(<<Compound(<<ReturnStmt(<<>>)>>)>>),
                       CtorProto(<<Parm("x")>>)>>),
    ClassDecl("Foo", <<>>)
}

CtorDef(body) ==
    Node("CONSTRUCTOR", "Foo", <<TypeRef("class Foo"), Parm("x"), Compound(body)>>)
MethodDef(body) ==
    Node("CXX_METHOD", "m", <<TypeRef("class Foo"), Parm("a"), Compound(body)>>)
DtorDef(body) ==
    Node("DESTRUCTOR", "~Foo", <<TypeRef("class Foo"), Compound(body)>>)

DefPairs ==
    {<<CtorDef(b1), CtorDef(b2)>> : b1 \in Bodies, b2 \in Bodies}
    \cup {<<MethodDef(b1), MethodDef(b2)>> : b1 \in Bodies, b2 \in Bodies}
    \cup {<<DtorDef(b1), DtorDef(b2)>> : b1 \in Bodies, b2 \in Bodies}

MemberUnits ==
    {TranslationUnit(<<k>>) : k \in FooClasses}
    \cup {TranslationUnit(<<d[1]>>) : d \in DefPairs}
    \cup {TranslationUnit(<<k, d[1]>>) : k \in FooClasses, d \in DefPairs}
    \cup {TranslationUnit(<<k, d[1], d[2]>>) : k \in FooClasses, d \in DefPairs}

NextMembers == Parse(MemberUnits) \/ Output

SpecMembers == Init /\ [][NextMembers]_vars

-----------------------------------------------------------------------------
(* The orphan family: a class Foo in one of the shapes above followed by   *)
(* one out-of-line node, so that for some shapes the class declares the    *)
(* member and for others it does not.                                      *)

\* out-of-line nodes that have no body statement to build: a declaration
\* without a body, and a body holding only a statement without a handler
BodylessDefs == {
    Node("CONSTRUCTOR", "Foo", <<TypeRef("class Foo")>>),
    Node("CXX_METHOD", "m", <<TypeRef("class Foo")>>),
    Node("DESTRUCTOR", "~Foo", <<TypeRef("class Foo")>>),
    Node("CONSTRUCTOR", "Foo", <<TypeRef("class Foo"),
                                 Compound(<<Node("IF_STMT", "", <<>>)>>)>>)
}

OrphanUnits ==
    {TranslationUnit(<<k, d>>) :
        k \in FooClasses, d \in BodylessDefs \cup {p[1] : p \in DefPairs}}

NextOrphans == Parse(OrphanUnits) \/ Output

SpecOrphans == Init /\ [][NextOrphans]_vars

-----------------------------------------------------------------------------
(* The enumeration family: an enum Color with up to MaxEnum enumerators,   *)
(* alone, after another declaration, or inside a namespace.                *)

MaxEnum == 3        \* enumerators per enumeration

EnumConstant(key, value) ==
    [Node("ENUM_CONSTANT_DECL", key, <<>>) EXCEPT !.enum_value = value]

EnumConstants == {EnumConstant("A", 0), EnumConstant("B", 1),
                  EnumConstant("C", 2), EnumConstant("D", -1)}

EnumDecls == {Node("ENUM_DECL", "Color", cs) : cs \in SeqsUpTo(EnumConstants, MaxEnum)}

EnumUnits ==
    {TranslationUnit(<<e>>) : e \in EnumDecls}
    \cup {TranslationUnit(<<VarDecl("y", <<IntLit("42")>>), e>>) : e \in EnumDecls}
    \cup {TranslationUnit(<<Node("NAMESPACE", "N", <<e>>)>>) : e \in EnumDecls}

NextEnum == Parse(EnumUnits) \/ Output

SpecEnum == Init /\ [][NextEnum]_vars

-----------------------------------------------------------------------------
(* The expression family: the binary-operator expressions with up to       *)
(* MaxOps operators over a, b, c, as the initializer of a variable or the  *)
(* operand of a return.  An expression is first a syntax tree ([leaf] or   *)
(* [op, l, r]); AsNode turns it into the frontend's nodes.  The token      *)
(* range the frontend reports for a node runs one token past the node, so  *)
(* the last token of a left operand is the operator (the builder relies    *)
(* on this).                                                               *)

MaxOps == 2         \* operators per expression

Leaf(name) == [leaf |-> name]
Bin(op, l, r) == [op |-> op, l |-> l, r |-> r]
IsLeaf(e) == "leaf" \in DOMAIN e

RECURSIVE Exprs(_)
\* the expressions with exactly n operators
Exprs(n) ==
    IF n = 0 THEN {Leaf("a"), Leaf("b"), Leaf("c")}
    ELSE UNION {{Bin(op, l, r) : op \in {"+", "*"}, l \in Exprs(k), r \in Exprs(n - 1 - k)}
                : k \in 0..(n - 1)}

AllExprs == UNION {Exprs(n) : n \in 0..MaxOps}

RECURSIVE Tokens(_)
Tokens(e) == IF IsLeaf(e) THEN <<e.leaf>> ELSE Tokens(e.l) \o <<e.op>> \o Tokens(e.r)

RECURSIVE AsNode(_, _)
\* the node of e when the token after e is `following`
AsNode(e, following) ==
    IF IsLeaf(e)
    THEN WithTokens(DeclRef(e.leaf), <<e.leaf, following>>)
    ELSE WithTokens(Node("BINARY_OPERATOR", "",
                         <<AsNode(e.l, e.op), AsNode(e.r, following)>>),
                    Append(Tokens(e), following))

ExprUnits ==
    {TranslationUnit(<<VarDecl("x", <<AsNode(e, ";")>>)>>) : e \in AllExprs}
    \cup {TranslationUnit(<<FunctionDecl("f",
              <<Compound(<<ReturnStmt(<<AsNode(e, ";")>>)>>)>>)>>) : e \in AllExprs}

NextExpr == Parse(ExprUnits) \/ Output

SpecExpr == Init /\ [][NextExpr]_vars

-----------------------------------------------------------------------------
(* The filter family: a node of every kind located in a header that was    *)
(* not registered, handed to handle directly and placed among the          *)
(* children of each kind of enclosing declaration.                         *)

Kinds == HandledKinds \cup {"IF_STMT", "CLASS_TEMPLATE", "UNION_DECL"}

\* a node of kind k outside the registered files; its child is in the
\* registered file and would be built if it were visited
Hidden(k, file) ==
    InFile(WithTokens(Node(k, "hidden", <<VarDecl("inner", <<IntLit("1")>>)>>), <<"1">>),
           file)

HiddenNodes == {Hidden(k, f) : k \in Kinds, f \in {OtherFile, ""}}

\* nodes that pass the filter: in the registered file, or spelled like it
ShownNodes == {InFile(VarDecl("shown", <<IntLit("2")>>), MainFile),
               InFile(VarDecl(MainFile, <<IntLit("2")>>), OtherFile),
               [VarDecl("nowhere", <<>>) EXCEPT !.has_file = FALSE]}

Placements(n) == {
    <<VarDecl("y", <<IntLit("42")>>), n, FunctionDecl("h", <<Parm("a")>>)>>,
    <<ClassDecl("Foo", <<CtorProto(<<>>), n, MethodProto(<<Parm("a")>>)>>)>>,
    <<Node("STRUCT_DECL", "S", <<n, FieldDecl("a", <<IntLit("1")>>)>>)>>,
    <<Node("NAMESPACE", "N", <<n, VarDecl("z", <<IntLit("2")>>)>>)>>,
    <<FunctionDecl("f", <<Parm("a"), n,
                          Compound(<<ReturnStmt(<<>>), n, ReturnStmt(<<DeclRef("a")>>)>>)>>)>>,
    <<Node("ENUM_DECL", "Color", <<EnumConstant("A", 0), n, EnumConstant("B", 1)>>)>>
}

FilterUnits ==
    UNION {{TranslationUnit(cs) : cs \in Placements(n)}
           : n \in {Hidden("VAR_DECL", OtherFile), Hidden("CLASS_DECL", OtherFile),
                    Hidden("IF_STMT", ""), Hidden("CONSTRUCTOR", OtherFile)}}

NextFilter == Parse(FilterUnits) \/ Handle(HiddenNodes \cup ShownNodes) \/ Output

SpecFilter == Init /\ [][NextFilter]_vars

-----------------------------------------------------------------------------
(* The unsupported family: a node of the registered file whose kind has    *)
(* no handler, handed to handle directly and placed among the children of  *)
(* each enclosing declaration that attaches what its children build.       *)

UnsupportedKinds == Kinds \ HandledKinds

\* its child has a handler and would be built if it were visited
Unsupported(k) ==
    WithTokens(Node(k, "odd", <<VarDecl("inner", <<IntLit("1")>>)>>), <<"1">>)

UnsupportedNodes == {Unsupported(k) : k \in UnsupportedKinds}

UnsupportedUnits ==
    UNION {{TranslationUnit(cs) : cs \in {p \in Placements(n) : p[1].kind # "ENUM_DECL"}}
           : n \in UnsupportedNodes}

NextUnsupported ==
    Parse(UnsupportedUnits) \/ Handle(UnsupportedNodes \cup ShownNodes) \/ Output

SpecUnsupported == Init /\ [][NextUnsupported]_vars

-----------------------------------------------------------------------------

-----------------------------------------------------------------------------
(* The operator family: a function f whose body is one expression          *)
(* statement, a node of one of the kinds that count their children, with   *)
(* zero to MaxChildren operands.  The statement is a direct child of the   *)
(* compound statement, which lets an error of its builder propagate        *)
(* (handle_var_decl and handle_return_stmt catch everything).              *)

MaxChildren == 3    \* children of an operator node

Operands == {
    WithTokens(DeclRef("a"), <<"a", "+">>),
    WithTokens(DeclRef("b"), <<"b", "*">>),
    IntLit("1")
}

NewOperands == {
    TypeRef("class Foo"),
    Node("CALL_EXPR", "Foo", <<DeclRef("Foo")>>),
    Node("CALL_EXPR", "Foo", <<DeclRef("Foo"), DeclRef("a"), IntLit("1")>>)
}

OperatorKinds == {"CONDITIONAL_OPERATOR", "MEMBER_REF", "MEMBER_REF_EXPR",
                  "PAREN_EXPR", "UNARY_OPERATOR", "BINARY_OPERATOR"}

OperatorNodes ==
    {Node(k, "m", children) :
        k \in OperatorKinds, children \in SeqsUpTo(Operands, MaxChildren)}
    \cup {Node("CXX_NEW_EXPR", "", children) :
              children \in SeqsUpTo(NewOperands, MaxChildren)}

OperatorUnits ==
    {TranslationUnit(<<FunctionDecl("f", <<Compound(<<n>>)>>)>>) : n \in OperatorNodes}

NextOperators == Parse(OperatorUnits) \/ Output

SpecOperators == Init /\ [][NextOperators]_vars

-----------------------------------------------------------------------------
(* The class family: a class Foo whose children are up to MaxMembers       *)
(* member declarations of every kind a class can hold.                     *)

MaxMembers == 2     \* children of the class

Members == {
    CtorProto(<<>>),
    DtorProto,
    MethodProto(<<Parm("a")>>),
    Node("CXX_METHOD", "n", <<Compound(<<ReturnStmt(<<>>)>>)>>),
    FieldDecl("f", <<IntLit("1")>>),
    FieldDecl("g", <<>>),
    Node("ENUM_DECL", "E", <<EnumConstant("A", 0)>>),
    Node("STRUCT_DECL", "S", <<FieldDecl("a", <<IntLit("1")>>)>>),
    ClassDecl("Inner", <<>>)
}

ClassUnits ==
    {TranslationUnit(<<ClassDecl("Foo", members)>>) :
        members \in SeqsUpTo(Members, MaxMembers)}

NextClasses == Parse(ClassUnits) \/ Output

SpecClasses == Init /\ [][NextClasses]_vars

Next == Parse(Units) \/ Output

Spec == Init /\ [][Next]_vars

NextModule == AddDeclaration \/ AddImport \/ Output

SpecModule == Init /\ [][NextModule]_vars

NextScopes == DeclareIn \/ Output

SpecScopes == Init /\ [][NextScopes]_vars

NextWriter == Write \/ ClearLine \/ ClearBlock

SpecWriter == Init /\ [][NextWriter]_vars

-----------------------------------------------------------------------------
(* C1: after a write, k >= 1 consecutive clear_block(n) calls (nothing     *)
(* else since the write) have emitted exactly one line terminator for the  *)
(* pending line plus n blank-line terminators, whatever k is: the stream   *)
(* after the last written content is exactly 1 + n newline chunks.         *)

\* the calls made since the last write are k >= 1 calls clear_block(n)
OnlyClearBlocksSinceWrite(n) ==
    \E i \in 1..Len(calls) :
        /\ calls[i].op = "write"
        /\ i < Len(calls)
        /\ \A j \in (i + 1)..Len(calls) :
               calls[j].op = "clear_block" /\ calls[j].n = n

C1_BlankLineIdempotence ==
    \A n \in 0..(MaxBlank + 1) :
        OnlyClearBlocksSinceWrite(n) =>
            /\ Len(out) = mark + 1 + n
            /\ \A p \in (mark + 1)..Len(out) : out[p] = "\n"
            /\ line_cleared
            /\ block_cleared = n

\* three consecutive clear_block(2) calls after a write
C1_Witness ==
    /\ Len(calls) >= 4
    /\ calls[Len(calls) - 3].op = "write"
    /\ OnlyClearBlocksSinceWrite(2)
    /\ Len(out) = mark + 3

-----------------------------------------------------------------------------
(* What the claims below read off a unit and off the model built from it.  *)

Parsed == pc # "init"

HasKind(nodes, kind) == \E i \in 1..Len(nodes) : nodes[i].kind = kind

\* an in-class declaration of the given kind without a body / with one
IsPrototype(n, kind) == n.kind = kind /\ ~HasKind(n.children, "COMPOUND_STMT")
IsInline(n, kind) ==
    /\ n.kind = kind
    /\ \E i \in 1..Len(n.children) :
           n.children[i].kind = "COMPOUND_STMT" /\ n.children[i].children # <<>>

\* an out-of-line definition of the given kind: it starts with the
\* reference to its class
IsDefinition(n, kind) ==
    n.kind = kind /\ n.children # <<>> /\ n.children[1].kind = "TYPE_REF"

\* the statements of a definition's body
BodyOf(n) == n.children[Len(n.children)].children

\* the model statement of a statement node of the member family
StatementOf(n) ==
    IF n.children = <<>> THEN Return(None)
    ELSE Return(Reference(n.children[1].spelling))

ObjectsOf(type, parent) ==
    {i \in 1..Len(heap) : heap[i].type = type /\ heap[i].parent = parent}

\* the class the module's scope binds Foo to
Foo == ODGet(heap[module.id].names, "Foo")

-----------------------------------------------------------------------------
(* C2.  Prototype/definition merge.  When a unit declares class Foo with   *)
(* a constructor prototype and then defines that constructor out of line,  *)
(* the build succeeds, the model holds exactly one Constructor whose       *)
(* class is Foo, Foo's constructor is that object, and its statement list  *)
(* is the statements of the out-of-line body, each once, in source order.  *)

C2_Case ==
    /\ Parsed
    /\ Len(tu.children) = 2
    /\ tu.children[1].kind = "CLASS_DECL"
    /\ \E i \in 1..Len(tu.children[1].children) :
           IsPrototype(tu.children[1].children[i], "CONSTRUCTOR")
    /\ ~\E i \in 1..Len(tu.children[1].children) :
           IsInline(tu.children[1].children[i], "CONSTRUCTOR")
    /\ IsDefinition(tu.children[2], "CONSTRUCTOR")

C2_PrototypeDefinitionMerge ==
    C2_Case =>
        /\ pc # "failed"
        /\ Cardinality(ObjectsOf("Constructor", Foo)) = 1
        /\ IsObj(heap[Foo.id].constructor)
        /\ heap[Foo.id].constructor.id \in ObjectsOf("Constructor", Foo)
        /\ LET body == BodyOf(tu.children[2])
               statements == heap[heap[Foo.id].constructor.id].statements
           IN  /\ Len(statements) = Len(body)
               /\ \A i \in 1..Len(body) : statements[i] = StatementOf(body[i])

\* a prototype followed by a definition whose body has two different statements
C2_Witness ==
    /\ C2_Case
    /\ pc = "parsed"
    /\ Len(BodyOf(tu.children[2])) = 2
    /\ BodyOf(tu.children[2])[1] # BodyOf(tu.children[2])[2]
    /\ Len(heap[heap[Foo.id].constructor.id].statements) = 2

-----------------------------------------------------------------------------
(* C3.  Duplicate-body rejection.  When a constructor, method or           *)
(* destructor of Foo that already has a non-empty body (inline, or from a  *)
(* first out-of-line definition) is given a second non-empty out-of-line   *)
(* body, the build fails and nothing is written.                           *)

MemberKinds == {"CONSTRUCTOR", "CXX_METHOD", "DESTRUCTOR"}

C3_Case ==
    /\ Parsed
    /\ Len(tu.children) >= 2
    /\ tu.children[1].kind = "CLASS_DECL"
    /\ \E kind \in MemberKinds :
        LET members == tu.children[1].children
            last == tu.children[Len(tu.children)]
        IN  /\ IsDefinition(last, kind) /\ BodyOf(last) # <<>>
            /\ \/ /\ Len(tu.children) = 2
                  /\ \E i \in 1..Len(members) : IsInline(members[i], kind)
               \/ /\ Len(tu.children) = 3
                  /\ \E i \in 1..Len(members) : IsPrototype(members[i], kind)
                  /\ IsDefinition(tu.children[2], kind)
                  /\ BodyOf(tu.children[2]) # <<>>

C3_DuplicateBodyRejected ==
    C3_Case => pc = "failed" /\ out = <<>>

-----------------------------------------------------------------------------
(* C4.  Unresolved symbol.  The model never holds, as a statement of a     *)
(* function, a Reference to a name that no scope from the function up to   *)
(* the root module binds: building such a reference fails instead.         *)

Functions == {i \in 1..Len(heap) : heap[i].type = "Function"}

UnboundReferences ==
    {i \in Functions :
        \E j \in 1..Len(heap[i].statements) :
            /\ heap[i].statements[j].type = "Reference"
            /\ getitem(BuildState, Obj(i), heap[i].statements[j].ref).err # NoErr}

C4_UnresolvedSymbolFails ==
    Parsed => UnboundReferences = {}

-----------------------------------------------------------------------------
(* C5.  Absent initializer.  Unless the build failed, a variable declared  *)
(* at the top of the unit without an initializer is a declaration of the   *)
(* module and, once the text is written, a line `<name> = None`; a field   *)
(* declared without an initializer is an attribute of its class.           *)

TopLevel(kind) == {i \in 1..Len(tu.children) : tu.children[i].kind = kind}

Uninitialized(nodes, kind) ==
    {i \in 1..Len(nodes) : nodes[i].kind = kind /\ nodes[i].children = <<>>}

C5_AbsentInitializerRendered ==
    (Parsed /\ pc # "failed") =>
        /\ \A i \in Uninitialized(tu.children, "VAR_DECL") :
            LET name == tu.children[i].spelling
            IN  /\ ODHas(heap[module.id].declarations, name)
                /\ pc = "emitted" =>
                       \E p \in 1..(Len(out) - 1) :
                           out[p] = name \o " = " /\ out[p + 1] = "None"
        /\ \A c \in TopLevel("CLASS_DECL") :
            \A i \in Uninitialized(tu.children[c].children, "FIELD_DECL") :
                LET klass == ODGet(heap[module.id].names, tu.children[c].spelling)
                IN  ODHas(heap[klass.id].attributes,
                          tu.children[c].children[i].spelling)

-----------------------------------------------------------------------------
(* C9.  No partial output.  Emission of a model whose build completed      *)
(* never raises.                                                           *)

C9_NoPartialOutput ==
    pc # "emit_failed"

-----------------------------------------------------------------------------
(* C10.  First fatal error aborts.  When the initializer of a top-level    *)
(* variable, or the operand of a return statement of a top-level           *)
(* function, is a node whose builder raises its structural error, the      *)
(* build of the unit fails.                                                *)

\* the builder of n raises the error it raises on a malformed node
RaisesStructuralError(n) ==
    handle(n, module, BuildState).err = "Exception"

ReturnsFailing(f) ==
    \E i \in 1..Len(f.children) :
        /\ f.children[i].kind = "COMPOUND_STMT"
        /\ \E j \in 1..Len(f.children[i].children) :
            LET s == f.children[i].children[j]
            IN  /\ s.kind = "RETURN_STMT"
                /\ s.children # <<>>
                /\ RaisesStructuralError(s.children[1])

C10_Case ==
    /\ Parsed
    /\ \/ \E i \in TopLevel("VAR_DECL") :
              /\ tu.children[i].children # <<>>
              /\ RaisesStructuralError(tu.children[i].children[1])
       \/ \E i \in TopLevel("FUNCTION_DECL") : ReturnsFailing(tu.children[i])

C10_FirstFatalErrorAborts ==
    C10_Case => pc = "failed"

-----------------------------------------------------------------------------
(* C6.  File filtering.  A node that has an originating file, whose file   *)
(* is not registered and whose spelling is not a registered filename, is   *)
(* skipped by handle whatever its kind and whatever the scope: handle      *)
(* returns None, raises nothing, builds no object, changes no object of    *)
(* the model (so no descendant was visited) and prints one notice.  And    *)
(* the siblings of such a node are processed: the model built from a unit  *)
(* is the model built from the same unit without its skipped nodes (an     *)
(* enumeration keeps a None in the place of a skipped enumerator).         *)

Filtered(n) ==
    /\ n.has_file
    /\ abspath(n.file) \notin filenames
    /\ abspath(n.spelling) \notin filenames

RECURSIVE Strip(_)
\* the tree without the nodes the filter skips
Strip(n) ==
    LET kept == SelectSeq(n.children, LAMBDA c : ~Filtered(c))
    IN  [n EXCEPT !.children = [i \in 1..Len(kept) |-> Strip(kept[i])]]

\* the heap without the None an enumeration holds for a skipped enumerator
WithoutSkipped(h) ==
    [i \in 1..Len(h) |->
        IF h[i].type = "Enumeration"
        THEN [h[i] EXCEPT !.enumerators = SelectSeq(@, LAMBDA e : e # None)]
        ELSE h[i]]

C6_FileFiltering ==
    /\ (pc = "handled" /\ Filtered(probe.node)) =>
           /\ probe.ret = None
           /\ probe.err = NoErr
           /\ heap = probe.before.heap
           /\ log = Append(probe.before.log,
                           [msg |-> "Ignoring node in file", what |-> probe.node.file])
    /\ pc = "parsed" =>
           LET r == parse(Strip(tu), NewGenerator.st)
           IN  r.err = NoErr /\ WithoutSkipped(heap) = r.st.heap

\* a class in an unregistered header, handed to handle with a class of the
\* model as scope
C6_Witness ==
    /\ pc = "handled"
    /\ Filtered(probe.node)
    /\ probe.node.kind = "CLASS_DECL"
    /\ TypeOf(BuildState, probe.context) = "Class"
    /\ Strip(tu) # tu

-----------------------------------------------------------------------------
(* C7.  Enumerator order preservation.  The enumerator list of the         *)
(* Enumeration built from an enumeration node is its enumerator children   *)
(* as (key, value) pairs, in document order, none added, dropped or        *)
(* duplicated; and the text written lists the lines `key = value` in that  *)
(* order.                                                                  *)

\* the enumeration node of a unit of the enumeration family
EnumNode ==
    LET last == tu.children[Len(tu.children)]
    IN  IF last.kind = "NAMESPACE" THEN last.children[1] ELSE last

EnumLine(key, value) == Indent(1) \o key \o " = " \o ToString(value)

EnumLines == {EnumLine(c.spelling, v.enum_value) : c \in EnumConstants, v \in EnumConstants}

C7_EnumeratorOrder ==
    Parsed =>
        LET cs == EnumNode.children
            enums == {i \in 1..Len(heap) : heap[i].type = "Enumeration"}
        IN  /\ pc # "failed"
            /\ Cardinality(enums) = 1
            /\ \A i \in enums :
                   heap[i].enumerators =
                       [j \in 1..Len(cs) |-> EnumValue(cs[j].spelling, cs[j].enum_value)]
            /\ pc # "emit_failed"
            /\ pc = "emitted" =>
                   SelectSeq(out, LAMBDA chunk : chunk \in EnumLines) =
                       [j \in 1..Len(cs) |-> EnumLine(cs[j].spelling, cs[j].enum_value)]

\* enum Color { A = 0, B = 1, C = 2 }, built and written
C7_Witness ==
    /\ pc = "emitted"
    /\ EnumNode.children =
           <<EnumConstant("A", 0), EnumConstant("B", 1), EnumConstant("C", 2)>>
    /\ SelectSeq(out, LAMBDA chunk : chunk \in EnumLines) =
           <<"    A = 0", "    B = 1", "    C = 2">>

-----------------------------------------------------------------------------
(* C8.  Expression round trip.  The tree of `a + b * c` builds             *)
(* BinaryOperation(a, '+', BinaryOperation(b, '*', c)) over References     *)
(* and is written `a + b * c`.  In general the value built from a tree of  *)
(* binary operators has the shape of the tree, each operation holding the  *)
(* operator token that stands between its operands in the source, and      *)
(* the text written is the source's tokens in their order separated by     *)
(* single spaces: nothing re-associated, no parenthesis added.             *)

\* the expression node of a unit of the expression family and the value
\* the model built from it
ExprNode ==
    LET top == tu.children[1]
    IN  IF top.kind = "VAR_DECL" THEN top.children[1]
        ELSE top.children[1].children[1].children[1]

ExprValue ==
    LET decl == heap[ODGet(heap[module.id].declarations, tu.children[1].spelling).id]
    IN  IF decl.type = "Variable" THEN decl.value ELSE decl.statements[1].value

RECURSIVE Builds(_, _)
\* value is what the tree n denotes
Builds(n, value) ==
    IF n.kind = "DECL_REF_EXPR" THEN value = Reference(n.spelling)
    ELSE /\ value.type = "BinaryOperation"
         /\ value.op = n.tokens[Len(n.children[1].tokens)]
         /\ Builds(n.children[1], value.lvalue)
         /\ Builds(n.children[2], value.rvalue)

\* the source text of n: its tokens but the one after it
SourceText(n) == JoinNames(SubSeq(n.tokens, 1, Len(n.tokens) - 1), 1, " ")

APlusBTimesC == Bin("+", Leaf("a"), Bin("*", Leaf("b"), Leaf("c")))

C8_ExpressionRoundTrip ==
    Parsed =>
        /\ pc # "failed"
        /\ Builds(ExprNode, ExprValue)
        /\ ExprNode = AsNode(APlusBTimesC, ";") =>
               ExprValue = BinaryOperation(Reference("a"), "+",
                               BinaryOperation(Reference("b"), "*", Reference("c")))
        /\ pc # "emit_failed"
        /\ pc = "emitted" =>
               Join(out) = IF tu.children[1].kind = "VAR_DECL"
                           THEN "x = " \o SourceText(ExprNode) \o "\n"
                           ELSE "def f():\n    return " \o SourceText(ExprNode)
                                    \o "\n\n\n"

\* x = a + b * c, built and written
C8_Witness ==
    /\ pc = "emitted"
    /\ tu.children[1].kind = "VAR_DECL"
    /\ ExprNode = AsNode(APlusBTimesC, ";")
    /\ Join(out) = "x = a + b * c\n"

-----------------------------------------------------------------------------
(* C11.  Unsupported construct is recoverable.  A node of a registered     *)
(* file whose kind has no handler is skipped by handle whatever the        *)
(* scope: handle returns None, raises nothing, builds no object, changes   *)
(* no object of the model (so no descendant was visited) and prints one    *)
(* notice.  A unit holding such a node among the children of a             *)
(* translation unit, namespace, class, struct, function or compound        *)
(* statement builds without error, and its model is the model built from   *)
(* the unit without the node.                                              *)

IsUnsupported(n) ==
    /\ n.has_file
    /\ n.file # ""
    /\ abspath(n.file) \in filenames
    /\ n.kind \notin HandledKinds

RECURSIVE StripUnsupported(_)
\* the tree without the nodes that have no handler
StripUnsupported(n) ==
    LET kept == SelectSeq(n.children, LAMBDA c : ~IsUnsupported(c))
    IN  [n EXCEPT !.children = [i \in 1..Len(kept) |-> StripUnsupported(kept[i])]]

C11_UnsupportedRecoverable ==
    /\ (pc = "handled" /\ IsUnsupported(probe.node)) =>
           /\ probe.ret = None
           /\ probe.err = NoErr
           /\ heap = probe.before.heap
           /\ log = Append(probe.before.log,
                           [msg |-> "Ignoring node of type", what |-> probe.node.kind])
    /\ Parsed /\ pc # "handled" =>
           LET r == parse(StripUnsupported(tu), NewGenerator.st)
           IN  /\ pc # "failed"
               /\ r.err = NoErr
               /\ heap = r.st.heap

\* an if statement handed to handle with a function of the model as scope,
\* the unit holding an unsupported node itself
C11_Witness ==
    /\ pc = "handled"
    /\ IsUnsupported(probe.node)
    /\ probe.node.kind = "IF_STMT"
    /\ TypeOf(BuildState, probe.context) = "Function"
    /\ StripUnsupported(tu) # tu

-----------------------------------------------------------------------------
(* C12.  Out-of-line definition without prototype is rejected.  When a     *)
(* unit declares class Foo without a constructor (method m, destructor)    *)
(* and then holds an out-of-line constructor (method m, destructor) node   *)
(* of Foo, the build fails with the lookup's error, and it fails at the    *)
(* lookup: nothing was built or printed beyond what the class alone gives. *)

Declares(klass, kind, name) ==
    \E i \in 1..Len(klass.children) :
        klass.children[i].kind = kind /\ klass.children[i].spelling = name

C12_Case ==
    /\ Parsed
    /\ Len(tu.children) = 2
    /\ tu.children[1].kind = "CLASS_DECL"
    /\ tu.children[1].spelling = "Foo"
    /\ \E kind \in MemberKinds :
           /\ IsDefinition(tu.children[2], kind)
           /\ ~Declares(tu.children[1], kind, tu.children[2].spelling)

C12_DefinitionWithoutPrototypeRejected ==
    C12_Case =>
        LET alone == parse(TranslationUnit(<<tu.children[1]>>), NewGenerator.st)
        IN  /\ pc = "failed"
            /\ error = "KeyError"
            /\ heap = alone.st.heap
            /\ log = alone.st.log

-----------------------------------------------------------------------------
(* C13.  Module rendering order.  Whatever sequence of add_declaration     *)
(* and add_import calls built the module, the text written is: every       *)
(* import statement the calls required, once, in sorted order, each on a   *)
(* line, followed by two blank lines if there is any; then the             *)
(* declarations, one per name, in the order the names were first added,    *)
(* each rendering the object added last under its name.  (No call of the   *)
(* two adds a submodule, so none is rendered.)                             *)

Added == SelectSeq(calls, LAMBDA c : c.op = "add_declaration")

RequiredImports ==
    {calls[i].statement : i \in {j \in 1..Len(calls) : calls[j].op = "add_import"}}
    \cup (IF \E i \in 1..Len(Added) : Added[i].decl.type = "Enumeration"
          THEN {"from enum import Enum"} ELSE {})

\* Python's order of the three statements: 'f' < 'i', ' o' < ' s'
SortedStatements == <<"from enum import Enum", "import os", "import sys">>

\* the positions of Added that add a name for the first time, and the
\* declaration added last under the name added at position i
FirstAdds ==
    SelectSeq([i \in 1..Len(Added) |-> i],
              LAMBDA i : \A j \in 1..(i - 1) : Added[j].decl.name # Added[i].decl.name)

LastAdded(i) ==
    LET same == {j \in 1..Len(Added) : Added[j].decl.name = Added[i].decl.name}
    IN  Added[CHOOSE j \in same : \A k \in same : k <= j].decl

DeclText(d) ==
    IF d.type = "Variable" THEN d.name \o " = " \o d.value \o "\n"
    ELSE "class " \o d.name \o "(Enum):\n    pass\n\n\n"

ModuleText ==
    LET statements == SelectSeq(SortedStatements, LAMBDA x : x \in RequiredImports)
    IN  Join([i \in 1..Len(statements) |-> statements[i] \o "\n"])
        \o (IF statements # <<>> THEN "\n\n" ELSE "")
        \o Join([i \in 1..Len(FirstAdds) |-> DeclText(LastAdded(FirstAdds[i]))])

C13_ModuleRenderingOrder ==
    /\ pc \notin {"failed", "emit_failed"}
    /\ pc = "emitted" => Join(out) = ModuleText

\* the imports added in reverse order, then y declared as a variable and
\* declared again as an enumeration
C13_Witness ==
    /\ pc = "emitted"
    /\ calls = <<[op |-> "add_import", statement |-> "import sys"],
                 [op |-> "add_import", statement |-> "import os"],
                 [op |-> "add_declaration",
                  decl |-> [type |-> "Variable", name |-> "y", value |-> "1"]],
                 [op |-> "add_declaration",
                  decl |-> [type |-> "Enumeration", name |-> "y"]]>>
    /\ Join(out) = "from enum import Enum\nimport os\nimport sys\n\n\n"
                       \o "class y(Enum):\n    pass\n\n\n"

-----------------------------------------------------------------------------
(* C14.  Lexical name lookup.  After any sequence of constructions of      *)
(* declarations inside contexts, looking a name up in a context gives the  *)
(* declaration registered last under that name in the innermost context,   *)
(* from the context itself out to the root, that registered the name,      *)
(* whatever the declaration's category; and it raises KeyError when no     *)
(* context of the chain registered the name.  (The k-th construction       *)
(* creates object k + 1; a Module does not register its name.)             *)

\* from the history: the context object i was created in, and the object
\* registered last under name directly in context c (0 if none)
ParentOf(i) == IF i = 1 THEN None ELSE calls[i - 1].parent

Registrations(c, name) ==
    {k \in 1..Len(calls) :
        calls[k].parent = c /\ calls[k].name = name /\ calls[k].type # "Module"}

RECURSIVE Lookup(_, _)
Lookup(c, name) ==
    LET regs == Registrations(c, name)
    IN  IF regs # {}
        THEN Obj(1 + CHOOSE k \in regs : \A j \in regs : j <= k)
        ELSE IF ParentOf(c.id) # None THEN Lookup(ParentOf(c.id), name)
        ELSE None

C14_LexicalNameLookup ==
    /\ pc # "failed"
    /\ \A c \in Contexts, name \in ScopeNames :
        LET found == getitem(BuildState, c, name)
        IN  IF Lookup(c, name) = None
            THEN found.err = "KeyError"
            ELSE found.err = NoErr /\ found.ret = Lookup(c, name)

\* a function nested in a function nested in the root, the root binding a
\* name that the middle function binds again: the innermost sees the middle
\* binding, and a name bound nowhere fails
C14_Witness ==
    /\ Len(calls) = 3
    /\ calls[1] = [op |-> "declare", type |-> "Function", parent |-> Obj(1), name |-> "a"]
    /\ calls[2] = [op |-> "declare", type |-> "Function", parent |-> Obj(2), name |-> "a"]
    /\ calls[3] = [op |-> "declare", type |-> "Function", parent |-> Obj(3), name |-> "b"]
    /\ getitem(BuildState, Obj(4), "a").ret = Obj(3)
    /\ getitem(BuildState, Obj(2), "b").err = "KeyError"
    /\ pc = "parsed"

-----------------------------------------------------------------------------
(* C15.  Out-of-line method definition attaches only the body.  When a     *)
(* unit declares class Foo with a prototype of method m and then defines   *)
(* m out of line, the build succeeds; the model holds one Method of Foo,   *)
(* the object Foo registered under m when the class was built; its         *)
(* parameter list is the one the prototype gave; its statements are the    *)
(* statements of the definition's body; and the module's declarations are  *)
(* those of the class alone.                                               *)

C15_Case ==
    /\ Parsed
    /\ Len(tu.children) = 2
    /\ tu.children[1].kind = "CLASS_DECL"
    /\ \E i \in 1..Len(tu.children[1].children) :
           IsPrototype(tu.children[1].children[i], "CXX_METHOD")
    /\ \E body \in Bodies : tu.children[2] = MethodDef(body)

C15_DefinitionAttachesOnlyBody ==
    C15_Case =>
        LET alone == parse(TranslationUnit(<<tu.children[1]>>), NewGenerator.st).st
            before == ODGet(alone.heap[Foo.id].methods, "m")
            method == ODGet(heap[Foo.id].methods, "m")
            body == BodyOf(tu.children[2])
        IN  /\ pc # "failed"
            /\ method = before
            /\ ObjectsOf("Method", Foo) = {method.id}
            /\ heap[method.id].parameters = alone.heap[before.id].parameters
            /\ Len(heap[method.id].parameters) = 1
            /\ heap[method.id].statements = [i \in 1..Len(body) |-> StatementOf(body[i])]
            /\ heap[module.id].declarations = alone.heap[module.id].declarations

\* m(a) declared in the class and defined with the two-statement body
C15_Witness ==
    /\ C15_Case
    /\ pc = "parsed"
    /\ Len(BodyOf(tu.children[2])) = 2
    /\ BodyOf(tu.children[2])[1] # BodyOf(tu.children[2])[2]
    /\ Len(heap[ODGet(heap[Foo.id].methods, "m").id].statements) = 2

-----------------------------------------------------------------------------
(* Shared by C16..C20: readings of a unit of the operator family.          *)

\* the expression statement of f and its operands
OperatorNode == tu.children[1].children[1].children[1]
Children == OperatorNode.children

\* the function the unit declares (built before its body is visited)
TheFunction == heap[CHOOSE i \in ObjectsOf("Function", module) : TRUE]

\* what an operand denotes and how it reads
OperandValue(n) ==
    IF n.kind = "DECL_REF_EXPR" THEN Reference(n.spelling) ELSE Literal(n.tokens[1])
OperandText(n) ==
    IF n.kind = "DECL_REF_EXPR" THEN n.spelling ELSE n.tokens[1]

\* the text of f when its one statement reads as text
FunctionText(text) == "def f():\n    " \o text \o "\n\n\n"

-----------------------------------------------------------------------------
(* C16.  Ternary operator.  A conditional-operator node with three         *)
(* children c1, c2, c3 builds a ConditionalOperation holding c1 as the     *)
(* true branch, c2 as the condition and c3 as the false branch, and the    *)
(* function that holds it is written with the statement                    *)
(* ( c1 if c2 else c3 ).                                                   *)

C16_Case ==
    /\ Parsed
    /\ OperatorNode.kind = "CONDITIONAL_OPERATOR"
    /\ Len(Children) = 3

C16_TernaryBuiltAndRendered ==
    C16_Case =>
        /\ pc # "failed"
        /\ TheFunction.statements =
               <<ConditionalOperation(OperandValue(Children[1]),
                                      OperandValue(Children[2]),
                                      OperandValue(Children[3]))>>
        /\ pc # "emit_failed"
        /\ pc = "emitted" =>
               Join(out) = FunctionText("(" \o OperandText(Children[1]) \o " if "
                                            \o OperandText(Children[2]) \o " else "
                                            \o OperandText(Children[3]) \o ")")

-----------------------------------------------------------------------------
(* C17.  Member reference child count.  For a MEMBER_REF and for a         *)
(* MEMBER_REF_EXPR node named m: without a child the builder gives         *)
(* AttributeReference(SelfReference, m), written self.m; with one child    *)
(* it gives AttributeReference(<the child's value>, m) without an error,   *)
(* written <child>.m; with more than one child the build fails.            *)

C17_Case ==
    /\ Parsed
    /\ OperatorNode.kind \in {"MEMBER_REF", "MEMBER_REF_EXPR"}

C17_MemberReferenceChildCount ==
    C17_Case =>
        IF Len(Children) > 1 THEN pc = "failed"
        ELSE LET instance == IF Len(Children) = 0 THEN SelfReference
                             ELSE OperandValue(Children[1])
                 text == IF Len(Children) = 0 THEN "self"
                         ELSE OperandText(Children[1])
             IN  /\ pc \notin {"failed", "emit_failed"}
                 /\ TheFunction.statements = <<AttributeReference(instance, "m")>>
                 /\ pc = "emitted" => Join(out) = FunctionText(text \o ".m")

-----------------------------------------------------------------------------
(* C18.  Parentheses.  A PAREN_EXPR node with exactly one child builds a   *)
(* node wrapping the child's value and raises no error; with no child or   *)
(* with two or more children the build fails.                              *)

C18_Case ==
    /\ Parsed
    /\ OperatorNode.kind = "PAREN_EXPR"

C18_ParenthesesChildCount ==
    C18_Case =>
        IF Len(Children) # 1 THEN pc = "failed"
        ELSE /\ pc # "failed"
             /\ Len(TheFunction.statements) = 1

-----------------------------------------------------------------------------
(* C19.  Binary/unary operator child count.  A BINARY_OPERATOR or          *)
(* UNARY_OPERATOR node builds its operation if and only if it has exactly  *)
(* two children: with two, the build succeeds and f holds the operation    *)
(* over the two children's values; with fewer or more, the build fails     *)
(* with the structural error (Exception) and f holds no statement.         *)

C19_Case ==
    /\ Parsed
    /\ OperatorNode.kind \in {"BINARY_OPERATOR", "UNARY_OPERATOR"}

C19_OperatorChildCount ==
    C19_Case =>
        IF Len(Children) = 2
        THEN /\ pc # "failed"
             /\ TheFunction.statements =
                    <<IF OperatorNode.kind = "UNARY_OPERATOR"
                      THEN UnaryOperation(OperandValue(Children[1]),
                                          OperandValue(Children[2]))
                      ELSE BinaryOperation(OperandValue(Children[1]),
                               Children[1].tokens[Len(Children[1].tokens)],
                               OperandValue(Children[2]))>>
        ELSE /\ pc = "failed"
             /\ error = "Exception"
             /\ TheFunction.statements = <<>>

\* a unary operator with three children has been refused
C19_Witness ==
    /\ C19_Case
    /\ OperatorNode.kind = "UNARY_OPERATOR"
    /\ Len(Children) = 3
    /\ pc = "failed"
    /\ error = "Exception"

-----------------------------------------------------------------------------
(* C20.  Object construction.  A CXX_NEW_EXPR node whose two children are  *)
(* a type reference and a call expression builds a node without raising    *)
(* and f holds it as its statement; only another number of children makes  *)
(* the build fail.                                                         *)

C20_Case ==
    /\ Parsed
    /\ OperatorNode.kind = "CXX_NEW_EXPR"
    /\ Len(Children) = 2
    /\ Children[1].kind = "TYPE_REF"
    /\ Children[2].kind = "CALL_EXPR"

C20_ObjectConstruction ==
    C20_Case =>
        /\ pc # "failed"
        /\ Len(TheFunction.statements) = 1

-----------------------------------------------------------------------------
(* C21.  Class children attach.  Building a class attaches every child     *)
(* that produced a declaration, without an error: a constructor is the     *)
(* class's constructor, a destructor its destructor, a method is stored    *)
(* under its name, a field with an initializer under its name, and an      *)
(* enumeration, struct or class declared inside the class is recorded in   *)
(* the class's collection of nested declarations.                          *)

NestedKinds == {"ENUM_DECL", "STRUCT_DECL", "CLASS_DECL"}

\* the model type a nested declaration of the given kind is built as
NestedType(kind) ==
    CASE kind = "ENUM_DECL" -> "Enumeration"
      [] kind = "STRUCT_DECL" -> "Struct"
      [] kind = "CLASS_DECL" -> "Class"

C21_Case ==
    /\ Parsed
    /\ Len(tu.children) = 1
    /\ tu.children[1].kind = "CLASS_DECL"
    /\ tu.children[1].spelling = "Foo"

\* child n of the class is attached to klass, an object of the model
Attached(n, klass) ==
    CASE n.kind = "CONSTRUCTOR" ->
             /\ IsObj(klass.constructor)
             /\ heap[klass.constructor.id].type = "Constructor"
      [] n.kind = "DESTRUCTOR" ->
             /\ IsObj(klass.destructor)
             /\ heap[klass.destructor.id].type = "Destructor"
      [] n.kind = "CXX_METHOD" ->
             /\ ODHas(klass.methods, n.spelling)
             /\ heap[ODGet(klass.methods, n.spelling).id].type = "Method"
             /\ heap[ODGet(klass.methods, n.spelling).id].name = n.spelling
      [] n.kind = "FIELD_DECL" ->
             n.children # <<>> =>
                 /\ ODHas(klass.attributes, n.spelling)
                 /\ heap[ODGet(klass.attributes, n.spelling).id].value
                        = Literal(n.children[1].tokens[1])
      [] n.kind \in NestedKinds ->
             \E j \in 1..Len(klass.classes) :
                 /\ heap[klass.classes[j].v.id].type = NestedType(n.kind)
                 /\ heap[klass.classes[j].v.id].name = n.spelling

C21_ClassChildrenAttach ==
    C21_Case =>
        /\ pc # "failed"
        /\ \A i \in 1..Len(tu.children[1].children) :
               Attached(tu.children[1].children[i], heap[Foo.id])

-----------------------------------------------------------------------------
(* C22.  CodeWriter state invariant.  After any sequence of write,         *)
(* clear_line and clear_block(n) calls on a fresh CodeWriter: a non-zero   *)
(* blank-line counter implies the current line is terminated; the counter  *)
(* never exceeds the larger of 2, its initial value, and the largest n     *)
(* requested so far; and as long as nothing was written and no n above 2   *)
(* was requested, nothing has been emitted.                                *)

\* the blank-line counts requested by the clear_block calls so far
Requested == {calls[i].n : i \in {j \in 1..Len(calls) : calls[j].op = "clear_block"}}

NoWriteYet == \A i \in 1..Len(calls) : calls[i].op # "write"

C22_WriterStateInvariant ==
    /\ block_cleared > 0 => line_cleared
    /\ block_cleared <= 2 \/ \E n \in Requested : block_cleared <= n
    /\ (NoWriteYet /\ \A n \in Requested : n <= 2) => out = <<>>

\* clear_block(2) on the fresh writer emitted nothing; after a write of x,
\* clear_block(3) ended the line and emitted three blank lines
C22_Witness ==
    /\ Len(calls) = 3
    /\ calls[1] = [op |-> "clear_block", n |-> 2]
    /\ calls[2].op = "write"
    /\ calls[3] = [op |-> "clear_block", n |-> 3]
    /\ out = <<"x", "\n", "\n", "\n", "\n">>
    /\ line_cleared
    /\ block_cleared = 3

====
